---- MODULE Spec2Model ----
(***************************************************************************)
(* A model of xorkevin.dev/klog: the slog-backed handler (SlogHandler),    *)
(* the context attribute chain and the KLogger front end.                  *)
(*                                                                         *)
(* Go strings that are only compared are TLA+ strings; the module path,    *)
(* which is built by concatenation, is a sequence of tokens.  Pointers are *)
(* indices into heaps (sequences); 0 is the nil pointer.  An attribute     *)
(* value is an opaque token naming where the attribute was supplied, so    *)
(* that attributes supplied at different places always differ in value.    *)
(***************************************************************************)
EXTENDS Integers, Sequences, FiniteSets, TLC

VARIABLES
    handlers,   \* heap of *SlogHandler
    keySets,    \* heap of the map[string]struct{} objects behind attrKeySet
    derived,    \* per handler: how it was derived (parent, segment, attrs given)
    nodes,      \* heap of *ctxAttrs chain nodes
    ctxs,       \* heap of context.Context values
    ctxMade,    \* per context: the chain node made by the call that returned it
    loggers,    \* heap of *KLogger
    last,       \* the most recent call: its arguments, result and effects
    procs,      \* the goroutines of the concurrent specification
    writes,     \* the heap objects the most recent step of a goroutine wrote
    rsv,        \* the running call of Value.Resolve
    emit,       \* the call of Log being emitted and the delegate's outputs
    conv,       \* the level and the text of the conversion under way
    ev,         \* the loggers of the revision with Event, and its last call
    sw,         \* the SyncWriter, its mutex and the goroutines writing through it
    fl,         \* the loggers and contexts of the revision with Fields, and its last call
    grp         \* the slices behind group values and the calls of Resolve on them

vars == <<handlers, keySets, derived, nodes, ctxs, ctxMade, loggers, last, procs, writes,
          rsv, emit, conv, ev, sw, fl, grp>>

-----------------------------------------------------------------------------
(* Bounds of the model *)

\* handlers allocated (the root included), chain nodes allocated and the
\* length of an attribute list, per specification
MaxAttrs == 2
MaxMergeHandlers == 2
MaxMergeNodes == 2
MaxKeysHandlers == 2
MaxKeysNodes == 1
MaxHandlers == 3
MaxLogHandlers == 2
MaxCtxNodes == 3
\* goroutines started
MaxProcs == 2
\* the longest chain of lazy values and the deepest nesting of groups given
\* to Resolve
MaxChain == 65
MaxNest == 67
\* calls of Log made on one logger while its delegate fails
MaxEmits == 3
\* the largest skip given to Log
MaxSkip == 2
\* the largest number held in a Level, and the conversions made in a row
MaxLevelValue == 6
MaxConversions == 3
\* loggers of the revision with Event (the root included)
MaxEventLoggers == 3
\* goroutines writing through the SyncWriter, and calls of Write by each
MaxWriters == 2
MaxWrites == 2
\* loggers (the root included) and context nodes of the revision with Fields
MaxFieldLoggers == 3
MaxFieldNodes == 2
\* members of the shared group value, and goroutines that call Resolve on it
MaxMembers == 2
MaxResolvers == 2

-----------------------------------------------------------------------------
(* Constants of the program *)

\* log/slog built-in keys listed in slogBuiltinKeys
slogBuiltinKeys == {"level", "msg"}

LevelDebug == -4
LevelInfo == 0
LevelWarn == 4
LevelError == 8

Levels == {LevelDebug, LevelInfo, LevelWarn, LevelError}

\* The ordinary keys callers use.
UserKeys == {"k", "j"}

\* Module path segments: the empty string and two names.
Segments == {<<>>, <<"a">>, <<"b">>}

Nil == 0

-----------------------------------------------------------------------------
(* Attributes *)

\* An attribute value: where it was supplied (src, the object it was given to
\* and its position in the argument list); the synthesized time, caller and
\* path values carry the time, the program counter and the path.
MkValue(src, obj, idx) == [src |-> src, obj |-> obj, idx |-> idx, path |-> <<>>]

PathValue(mod) == [src |-> "path", obj |-> 0, idx |-> 0, path |-> mod]

AString(key, value) == [Key |-> key, Value |-> value]

\* The attributes a caller supplies at place (src, obj) with the keys ks, in order.
MkAttrs(src, obj, ks) == [i \in 1..Len(ks) |-> AString(ks[i], MkValue(src, obj, i))]

AttrKeys(attrs) == {attrs[i].Key : i \in 1..Len(attrs)}

\* The position of the first attribute with key k, 0 when there is none.
IndexOfKey(attrs, k) ==
    IF k \in AttrKeys(attrs)
    THEN CHOOSE i \in 1..Len(attrs) :
            attrs[i].Key = k /\ \A j \in 1..(i - 1) : attrs[j].Key # k
    ELSE 0

\* For each ordinary key, where a list of attributes first supplies it.
Asked(attrs) == [k \in UserKeys |-> IndexOfKey(attrs, k)]

ReservedKeys == {"", "t", "src", "mod", "level", "msg"}

GaveReserved(attrs) == AttrKeys(attrs) \cap ReservedKeys # {}

ValuesOf(attrs, k) == {attrs[i].Value : i \in {j \in 1..Len(attrs) : attrs[j].Key = k}}

NoDuplicateKeys(attrs) ==
    \A i, j \in 1..Len(attrs) : i # j => attrs[i].Key # attrs[j].Key

-----------------------------------------------------------------------------
(* The delegate: an slog.Handler.  It is immutable; WithAttrs returns a    *)
(* new handler that writes the given attributes with every record, after   *)
(* those of the handler it was made from; Enabled compares with its level. *)

NewDelegate(floor) == [attrs |-> <<>>, floor |-> floor]

WithAttrs(d, attrs) == [d EXCEPT !.attrs = @ \o attrs]

DelegateEnabled(d, level) == level >= d.floor

\* What the delegate writes for the record r2 it is handed: the level and the
\* message under the built-in keys, its own attributes, then the record's.
DelegateHandle(d, r2) ==
    [Level |-> r2.Level, Message |-> r2.Message, attrs |-> d.attrs \o r2.attrs]

-----------------------------------------------------------------------------
(* SlogHandler *)

NewSlogHandler(d, mapRef) ==
    [FieldTime |-> "t", FieldSrc |-> "src", FieldMod |-> "mod",
     ModSeparator |-> <<".">>, Mod |-> <<>>,
     attrKeySet |-> mapRef, slogHandler |-> d]

\* clone that copies the reference to the map instead of the map.
clone_sharedKeySet(h, ks) == [h |-> h, keySets |-> ks]

\* clone that gives the copy an empty map.
clone_emptyKeySet(h, ks) ==
    [h |-> [h EXCEPT !.attrKeySet = Len(ks) + 1], keySets |-> Append(ks, {})]

\* clone copies the fields and gives the copy a map object of its own
\* (maps.Clone); ks is the heap of map objects.
clone(h, ks) ==
    [h |-> [h EXCEPT !.attrKeySet = Len(ks) + 1],
     keySets |-> Append(ks, ks[h.attrKeySet])]

\* checkAttrKey without the comparison with the module field name.
checkAttrKey_noFieldMod(h, ks, k) ==
    \/ k = ""
    \/ k = h.FieldTime \/ k = h.FieldSrc
    \/ k \in slogBuiltinKeys
    \/ k \in ks[h.attrKeySet]

checkAttrKey(h, ks, k) ==
    \/ k = ""
    \/ k = h.FieldTime \/ k = h.FieldSrc \/ k = h.FieldMod
    \/ k \in slogBuiltinKeys
    \/ k \in ks[h.attrKeySet]

SlogHandlerEnabled(h, level) == DelegateEnabled(h.slogHandler, level)

\* The loop of Subhandler that keeps an attribute without writing its key
\* into h2's map.
RECURSIVE SubhandlerLoop_unregistered(_, _, _, _, _)
SubhandlerLoop_unregistered(h2, attrs, i, ks, attrsToAdd) ==
    IF i > Len(attrs) THEN [keySets |-> ks, attrsToAdd |-> attrsToAdd]
    ELSE IF checkAttrKey(h2, ks, attrs[i].Key)
         THEN SubhandlerLoop_unregistered(h2, attrs, i + 1, ks, attrsToAdd)
         ELSE SubhandlerLoop_unregistered(h2, attrs, i + 1, ks, Append(attrsToAdd, attrs[i]))

\* The loop of Subhandler over attrs from index i on: a key that passes
\* checkAttrKey is written into h2's map and its attribute kept.
RECURSIVE SubhandlerLoop(_, _, _, _, _)
SubhandlerLoop(h2, attrs, i, ks, attrsToAdd) ==
    IF i > Len(attrs) THEN [keySets |-> ks, attrsToAdd |-> attrsToAdd]
    ELSE IF checkAttrKey(h2, ks, attrs[i].Key)
         THEN SubhandlerLoop(h2, attrs, i + 1, ks, attrsToAdd)
         ELSE SubhandlerLoop(h2, attrs, i + 1,
                  [ks EXCEPT ![h2.attrKeySet] = @ \cup {attrs[i].Key}],
                  Append(attrsToAdd, attrs[i]))

\* Subhandler that appends the separator and the segment even when the
\* segment is empty.
Subhandler_alwaysSeparator(h, modSegment, attrs, ks) ==
    LET c == clone(h, ks)
        h2 == [c.h EXCEPT !.Mod = @ \o c.h.ModSeparator \o modSegment]
    IN  IF Len(attrs) > 0
        THEN LET l == SubhandlerLoop(h2, attrs, 1, c.keySets, <<>>)
             IN [h |-> IF Len(l.attrsToAdd) > 0
                       THEN [h2 EXCEPT !.slogHandler = WithAttrs(@, l.attrsToAdd)]
                       ELSE h2,
                 keySets |-> l.keySets]
        ELSE [h |-> h2, keySets |-> c.keySets]

\* Subhandler(modSegment, attrs) on handler h with the map heap ks: the new
\* handler and the map heap afterwards.
Subhandler(h, modSegment, attrs, ks) ==
    LET c == clone(h, ks)
        h2 == IF modSegment # <<>>
              THEN [c.h EXCEPT !.Mod = @ \o c.h.ModSeparator \o modSegment]
              ELSE c.h
    IN  IF Len(attrs) > 0
        THEN LET l == SubhandlerLoop(h2, attrs, 1, c.keySets, <<>>)
             IN [h |-> IF Len(l.attrsToAdd) > 0
                       THEN [h2 EXCEPT !.slogHandler = WithAttrs(@, l.attrsToAdd)]
                       ELSE h2,
                 keySets |-> l.keySets]
        ELSE [h |-> h2, keySets |-> c.keySets]

-----------------------------------------------------------------------------
(* The context attribute chain *)

eventInlineAttrsSize == 5

Min(a, b) == IF a < b THEN a ELSE b

EmptyAttrsList == [inlineAttrs |-> <<>>, attrs |-> <<>>]

\* attrsList.addAttrs: fill the inline array, spill the rest into the slice.
addAttrs(a, attrs) ==
    LET n == Min(eventInlineAttrsSize - Len(a.inlineAttrs), Len(attrs))
    IN [inlineAttrs |-> a.inlineAttrs \o SubSeq(attrs, 1, n),
        attrs |-> a.attrs \o SubSeq(attrs, n + 1, Len(attrs))]

\* attrsList.readAttrs: the order in which the attributes are visited.
readAttrs(a) == a.inlineAttrs \o a.attrs

\* A context is the sequence of chain nodes attached to it with
\* context.WithValue under ctxKeyAttrs, oldest first; NilCtx is the nil
\* context and Background is context.Background().
NilCtx == [isNil |-> TRUE, values |-> <<>>]
Background == [isNil |-> FALSE, values |-> <<>>]

getCtxAttrs(ctx) ==
    IF ctx.isNil THEN Nil
    ELSE IF Len(ctx.values) = 0 THEN Nil
    ELSE ctx.values[Len(ctx.values)]

setCtxAttrs(ctx, node) == [ctx EXCEPT !.values = Append(@, node)]

\* ExtendCtx that adds the attributes to the node the source already has.
ExtendCtx_inPlace(dest, ctx, attrs, ns) ==
    LET p == getCtxAttrs(ctx)
    IN IF p = Nil
       THEN [nodes |-> Append(ns, [attrs |-> addAttrs(EmptyAttrsList, attrs), parent |-> Nil]),
             ctx |-> setCtxAttrs(dest, Len(ns) + 1)]
       ELSE [nodes |-> Append([ns EXCEPT ![p].attrs = addAttrs(@, attrs)],
                              [attrs |-> EmptyAttrsList, parent |-> p]),
             ctx |-> setCtxAttrs(dest, Len(ns) + 1)]

\* ExtendCtx that takes the parent node from dest.
ExtendCtx_parentFromDest(dest, ctx, attrs, ns) ==
    LET k == [attrs |-> addAttrs(EmptyAttrsList, attrs), parent |-> getCtxAttrs(dest)]
    IN [nodes |-> Append(ns, k), ctx |-> setCtxAttrs(dest, Len(ns) + 1)]

\* ExtendCtx(dest, ctx, attrs) with the node heap ns: the node heap
\* afterwards and the context returned.
ExtendCtx(dest, ctx, attrs, ns) ==
    LET k == [attrs |-> addAttrs(EmptyAttrsList, attrs), parent |-> getCtxAttrs(ctx)]
    IN [nodes |-> Append(ns, k), ctx |-> setCtxAttrs(dest, Len(ns) + 1)]

CtxWithAttrs(ctx, attrs, ns) == ExtendCtx(ctx, ctx, attrs, ns)

\* The attributes met walking the chain from node n along parent links.
RECURSIVE ChainWalk(_, _)
ChainWalk(n, ns) ==
    IF n = Nil THEN <<>>
    ELSE readAttrs(ns[n].attrs) \o ChainWalk(ns[n].parent, ns)

-----------------------------------------------------------------------------
(* SlogHandler.Handle *)

\* A record r: [Time, Level, Message, PC, attrs]; Time 0 is the zero time
\* and PC 0 is "no caller".
NewRecord(t, level, msg, pc) ==
    [Time |-> t, Level |-> level, Message |-> msg, PC |-> pc, attrs |-> <<>>]

AddAttrs(r, attrs) == [r EXCEPT !.attrs = @ \o attrs]

\* addFilteredAttrs without the set of keys already added to the record.
RECURSIVE addFilteredAttrs_noAttrKeys(_, _, _, _, _)
addFilteredAttrs_noAttrKeys(h, ks, from, i, st) ==
    IF i > Len(from) THEN st
    ELSE IF checkAttrKey(h, ks, from[i].Key)
         THEN addFilteredAttrs_noAttrKeys(h, ks, from, i + 1, st)
    ELSE addFilteredAttrs_noAttrKeys(h, ks, from, i + 1,
             [attrKeys |-> st.attrKeys, r2 |-> AddAttrs(st.r2, <<from[i]>>)])

\* addFilteredAttrs applied to the attributes in `from`, in order; st is
\* [attrKeys, r2].
RECURSIVE addFilteredAttrs(_, _, _, _, _)
addFilteredAttrs(h, ks, from, i, st) ==
    IF i > Len(from) THEN st
    ELSE IF checkAttrKey(h, ks, from[i].Key)
         THEN addFilteredAttrs(h, ks, from, i + 1, st)
    ELSE IF from[i].Key \in st.attrKeys
         THEN addFilteredAttrs(h, ks, from, i + 1, st)
    ELSE addFilteredAttrs(h, ks, from, i + 1,
             [attrKeys |-> st.attrKeys \cup {from[i].Key},
              r2 |-> AddAttrs(st.r2, <<from[i]>>)])

\* The first part of Handle: the new record r2 with the time, source and
\* module fields that are configured and present.
HandleFields(h, r) ==
    LET r0 == NewRecord(0, r.Level, r.Message, 0)
        r1 == IF h.FieldTime # "" /\ r.Time # 0
              THEN AddAttrs(r0, <<AString(h.FieldTime, MkValue("time", r.Time, 0))>>)
              ELSE r0
        r2 == IF h.FieldSrc # "" /\ r.PC # 0
              THEN AddAttrs(r1, <<AString(h.FieldSrc, MkValue("caller", r.PC, 0))>>)
              ELSE r1
    IN IF h.FieldMod # "" /\ h.Mod # <<>>
       THEN AddAttrs(r2, <<AString(h.FieldMod, PathValue(h.Mod))>>)
       ELSE r2

\* HandleRecord with the call-site attributes merged before the context's.
HandleRecord_callSiteFirst(h, ks, ns, ctx, r) ==
    LET r3 == HandleFields(h, r)
        a == addFilteredAttrs(h, ks, r.attrs, 1, [attrKeys |-> {}, r2 |-> r3])
        c == addFilteredAttrs(h, ks, ChainWalk(getCtxAttrs(ctx), ns), 1, a)
    IN c.r2

\* The record Handle forwards to the delegate for record r and context ctx.
HandleRecord(h, ks, ns, ctx, r) ==
    LET r3 == HandleFields(h, r)
        c == addFilteredAttrs(h, ks, ChainWalk(getCtxAttrs(ctx), ns), 1,
                              [attrKeys |-> {}, r2 |-> r3])
        a == addFilteredAttrs(h, ks, r.attrs, 1, c)
    IN a.r2

\* What Handle makes the delegate write.
Handle(h, ks, ns, ctx, r) ==
    DelegateHandle(h.slogHandler, HandleRecord(h, ks, ns, ctx, r))

-----------------------------------------------------------------------------
(* KLogger *)

\* Program counters: the frames of runtime.Callers, linepc and Log, and the
\* frames of the callers above Log.
PCCallers == 1
PCLinepc == 2
PCLog == 3
CallerFrames == <<10, 11>>

\* runtime.Callers(skip, pc[:1]) on a stack given innermost frame first:
\* the frame skip levels above runtime.Callers itself, 0 when there is none.
linepc(skip, callers) ==
    LET stack == <<PCCallers, PCLinepc, PCLog>> \o callers
        at == 2 + skip + 1
    IN IF at \in 1..Len(stack) THEN stack[at] ELSE 0

\* Enabled that asks only the handler.
KLoggerEnabled_handlerOnly(l, hs, level) == SlogHandlerEnabled(hs[l.handler], level)

\* Enabled that compares only with minLevel.
KLoggerEnabled_minLevelOnly(l, hs, level) == level >= l.minLevel

KLoggerEnabled(l, hs, level) ==
    level >= l.minLevel /\ SlogHandlerEnabled(hs[l.handler], level)

NoRecord == [Level |-> 0, Message |-> "", attrs |-> <<>>]

\* Log that calls Handle a second time with the same record.
Log_twice(l, hs, ks, ns, ctx, level, skip, msg, attrs, callers) ==
    IF ~KLoggerEnabled(l, hs, level)
    THEN [clockRead |-> FALSE, pcCaptured |-> FALSE, handled |-> FALSE,
          rec |-> NewRecord(0, level, msg, 0), out |-> NoRecord, forwarded |-> <<>>]
    ELSE LET t == l.clock
             pc == linepc(1 + skip, callers)
             rec == AddAttrs(NewRecord(t, level, msg, pc), attrs)
             out == Handle(hs[l.handler], ks, ns, ctx, rec)
         IN [clockRead |-> TRUE, pcCaptured |-> TRUE, handled |-> TRUE,
             rec |-> rec, out |-> out, forwarded |-> <<out, out>>]

\* KLogger.Log: what the call did (read the clock, captured the caller,
\* called Handle), what the delegate wrote, and the records the delegate
\* was handed, one for each call of Handle.
Log(l, hs, ks, ns, ctx, level, skip, msg, attrs, callers) ==
    IF ~KLoggerEnabled(l, hs, level)
    THEN [clockRead |-> FALSE, pcCaptured |-> FALSE, handled |-> FALSE,
          rec |-> NewRecord(0, level, msg, 0), out |-> NoRecord, forwarded |-> <<>>]
    ELSE LET t == l.clock
             pc == linepc(1 + skip, callers)
             rec == AddAttrs(NewRecord(t, level, msg, pc), attrs)
             out == Handle(hs[l.handler], ks, ns, ctx, rec)
         IN [clockRead |-> TRUE, pcCaptured |-> TRUE, handled |-> TRUE,
             rec |-> rec, out |-> out, forwarded |-> <<out>>]

\* Sublogger that builds its logger as New does without options: minLevel
\* INFO and a clock of its own.
Sublogger_newLogger(l, hs, modSegment, attrs, ks) ==
    LET sub == Subhandler(hs[l.handler], modSegment, attrs, ks)
    IN [l |-> [handler |-> Len(hs) + 1, minLevel |-> LevelInfo, clock |-> 0],
        h |-> sub.h, keySets |-> sub.keySets]

\* KLogger.Sublogger: the new logger, its handler and the map heap afterwards.
Sublogger(l, hs, modSegment, attrs, ks) ==
    LET sub == Subhandler(hs[l.handler], modSegment, attrs, ks)
    IN [l |-> [handler |-> Len(hs) + 1, minLevel |-> l.minLevel, clock |-> l.clock],
        h |-> sub.h, keySets |-> sub.keySets]

-----------------------------------------------------------------------------
(* Value.Resolve (the Value of the revision that defines its own kinds).    *)
(* A value is [kind, rem, c, g, cyc]: a leaf (anything that is neither a   *)
(* LogValuer nor a group), a lazy value (KindAny holding a LogValuer) with  *)
(* rem calls of LogValue left before its body appears, or a group (KindAny  *)
(* holding []Attr) with one member.  The values given to Resolve are        *)
(* Start(c, g, cyc): c lazy steps in front of every group, g groups nested  *)
(* around a leaf; with cyc the group's member is the value itself.          *)

valueResolveRecursionLimit == 64

Leaf == [kind |-> "leaf", rem |-> 0, c |-> 0, g |-> 0, cyc |-> FALSE]

\* ValueAny(fmt.Errorf(...)): KindAny holding an error, which is neither a
\* LogValuer nor a []Attr.
SentinelValue == [kind |-> "error", rem |-> 0, c |-> 0, g |-> 0, cyc |-> FALSE]

\* What appears after the lazy steps: a group, or the leaf.
Body(c, g, cyc) ==
    IF cyc \/ g > 0 THEN [kind |-> "group", rem |-> 0, c |-> c, g |-> g, cyc |-> cyc]
    ELSE Leaf

Start(c, g, cyc) ==
    IF c > 0 THEN [kind |-> "lazy", rem |-> c, c |-> c, g |-> g, cyc |-> cyc]
    ELSE Body(c, g, cyc)

\* A lazy value whose LogValue returns the value itself.
SelfLazy == [kind |-> "lazy", rem |-> 0, c |-> 0, g |-> 0, cyc |-> TRUE]

\* v.v.(LogValuer).LogValue()
LogValue(v) ==
    IF v.rem = 0 THEN v
    ELSE IF v.rem > 1 THEN [v EXCEPT !.rem = @ - 1]
    ELSE Body(v.c, v.g, v.cyc)

\* The member of a group: k[0].Value
Member(v) == IF v.cyc THEN Start(v.c, v.g, TRUE) ELSE Start(v.c, v.g - 1, FALSE)

IsLogValuer(v) == v.kind = "lazy"
IsGroup(v) == v.kind = "group"

\* The loop condition of resolveValue, ignoring the limit.
loopContinues_unbounded(i) == TRUE

\* The loop condition of resolveValue with the limit included.
loopContinues_inclusive(i) == i <= valueResolveRecursionLimit

\* for i := 0; i < valueResolveRecursionLimit; i++
loopContinues(i) == i < valueResolveRecursionLimit

\* The depth passed down with the budget started afresh.
memberDepth_reset(depth) == valueResolveRecursionLimit

\* a.Value.resolveGroup(depth - 1)
memberDepth(depth) == depth - 1

\* No step is taken beyond this many: more than any call of Resolve on the
\* values above needs.
StepCap == (valueResolveRecursionLimit + 4) * (valueResolveRecursionLimit + 4)

\* rsv: the value given, the value v at hand, the depth and loop counter i
\* of the innermost resolveGroup and resolveValue, the levels of groups
\* entered, the calls of LogValue made in this resolveValue and in all, the
\* most calls made in one resolveValue, the steps taken, the resolveGroup
\* calls still to return from, and how the innermost value ended.
NoResolve ==
    [pc |-> "none", input |-> Leaf, v |-> Leaf, depth |-> 0, i |-> 0, levels |-> 0,
     calls |-> 0, callsAll |-> 0, callsMax |-> 0, steps |-> 0, up |-> 0, end |-> "none"]

\* v.Resolve(): resolveGroup(valueResolveRecursionLimit), which starts
\* with resolveValue.
ResolveCall(v) ==
    [NoResolve EXCEPT !.pc = "loop", !.input = v, !.v = v,
                      !.depth = valueResolveRecursionLimit]

-----------------------------------------------------------------------------
(* Failures of the delegate.  The delegate of a KLogger is a JSONSerializer *)
(* (the revision with Serializer) or an slog.Handler behind SlogHandler     *)
(* (the revision with Handler).  A call of Log is given the failure its     *)
(* delegate meets: none, the encoder's or the writer's.                     *)

Failures == {"none", "encode", "write"}

\* The error log left alone.
reportError_dropped(errorLog, err) == errorLog

\* s.ErrorLog.Println(err)
reportError(errorLog, err) == Append(errorLog, err)

\* j.Encode(allFields)
Encode(fail) == IF fail = "encode" THEN "encode" ELSE "none"

\* io.Copy(s.W, &b)
Copy(fail) == IF fail = "write" THEN "write" ELSE "none"

\* h.slogHandler.Handle(ctx, r2): the error the slog.Handler returns
SlogHandle(fail) == fail

\* emit: where the call of Log stands, the logger's delegate and minLevel,
\* the failure the call meets, the error in hand, the serializer's ErrorLog
\* and writer, the failures met so far, the errors given up unreported, how
\* the last call came back to its caller, and the calls made.
NoEmit ==
    [pc |-> "none", delegate |-> "none", minLevel |-> 0, fail |-> "none", err |-> "none",
     errorLog |-> <<>>, W |-> 0, failed |-> <<>>, lost |-> 0, ret |-> "none", calls |-> 0]

-----------------------------------------------------------------------------
(* LevelLogger.  An error value is its Error() string and, when it has the  *)
(* capability, its ErrorMsg() (kerrors.ErrorMsger) and its StackString()    *)
(* (kerrors.StackStringer).                                                 *)

\* The frame of a LevelLogger method on the call stack.
PCLevelMethod == 4

NoError ==
    [Error |-> "", hasMsg |-> FALSE, ErrorMsg |-> "", hasStack |-> FALSE, StackString |-> ""]

\* errors.New("plain error")
PlainError == [NoError EXCEPT !.Error = "plain error"]

\* kerrors.WithMsg(nil, "something failed"): a message and a stack trace
KError ==
    [Error |-> "something failed: stack", hasMsg |-> TRUE, ErrorMsg |-> "something failed",
     hasStack |-> TRUE, StackString |-> "stack"]

\* an error with a message and no stack trace
MsgError == [KError EXCEPT !.Error = "something failed", !.hasStack = FALSE, !.StackString = ""]

\* an error with a stack trace and no message
StackError == [KError EXCEPT !.Error = "plain error: stack", !.hasMsg = FALSE, !.ErrorMsg = ""]

Errors == {PlainError, KError, MsgError, StackError}

\* slog.Group(key, slog.String(k1, v1), slog.String(k2, v2)): the members
\* as key, value, key, value.
Group(key, members) ==
    AString(key, [src |-> "group", obj |-> 0, idx |-> 0, path |-> members])

\* getErrAttr that asks the error for its message and its stack trace
\* without testing for the capability.
getErrAttr_noFallback(err) ==
    [msg |-> err.ErrorMsg,
     attr |-> Group("err", <<"msg", err.Error, "trace", err.StackString>>)]

getErrAttr(err) ==
    LET msg == IF err.hasMsg THEN err.ErrorMsg ELSE "plain-error"
        stacktrace == IF err.hasStack THEN err.StackString ELSE "NONE"
    IN [msg |-> msg, attr |-> Group("err", <<"msg", err.Error, "trace", stacktrace>>)]

NewLevelLogger(l) == [Logger |-> l, Skip |-> 0]

\* The skip handed on unchanged.
LevelSkip_same(ll) == ll.Skip

\* 1+l.Skip
LevelSkip(ll) == 1 + ll.Skip

Methods == {"Debug", "Info", "Warn", "Error", "WarnErr", "Err"}

MethodLevel(method) ==
    CASE method = "Debug" -> LevelDebug
      [] method = "Info" -> LevelInfo
      [] method \in {"Warn", "WarnErr"} -> LevelWarn
      [] method \in {"Error", "Err"} -> LevelError

\* The arguments handed to Logger.Log with the attribute of the error after
\* the caller's.
LevelLoggerCall_errLast(ll, method, msg, err, attrs) ==
    IF method \in {"WarnErr", "Err"}
    THEN LET e == getErrAttr(err)
         IN [level |-> MethodLevel(method), skip |-> LevelSkip(ll), msg |-> e.msg,
             attrs |-> attrs \o <<e.attr>>]
    ELSE [level |-> MethodLevel(method), skip |-> LevelSkip(ll), msg |-> msg,
          attrs |-> attrs]

\* The arguments a LevelLogger method hands to Logger.Log.
LevelLoggerCall(ll, method, msg, err, attrs) ==
    IF method \in {"WarnErr", "Err"}
    THEN LET e == getErrAttr(err)
         IN [level |-> MethodLevel(method), skip |-> LevelSkip(ll), msg |-> e.msg,
             attrs |-> <<e.attr>> \o attrs]
    ELSE [level |-> MethodLevel(method), skip |-> LevelSkip(ll), msg |-> msg,
          attrs |-> attrs]

-----------------------------------------------------------------------------
(* Level as text (the revision whose Level is an int of its own).           *)

KLevelDebug == 0
KLevelInfo == 1
KLevelWarn == 2
KLevelError == 3
KLevelNone == 4

\* Every number a Level is given in the model: Level(-1) and the numbers
\* past LevelNone among them.
LevelValues == -1..MaxLevelValue

\* The texts given to the parsers: the five names, the empty text, names in
\* other letter cases and other words.
Texts == {"", "DEBUG", "INFO", "WARN", "ERROR", "NONE", "UNSET", "BOGUS", "debug", "Info",
          "warn", "None"}

\* String with the case of LevelNone left out.
String_noNone(l) ==
    CASE l = KLevelDebug -> "DEBUG"
      [] l = KLevelInfo -> "INFO"
      [] l = KLevelWarn -> "WARN"
      [] l = KLevelError -> "ERROR"
      [] OTHER -> "UNSET"

\* Level.String
String(l) ==
    CASE l = KLevelDebug -> "DEBUG"
      [] l = KLevelInfo -> "INFO"
      [] l = KLevelWarn -> "WARN"
      [] l = KLevelError -> "ERROR"
      [] l = KLevelNone -> "NONE"
      [] OTHER -> "UNSET"

\* Level.MarshalText: the text and the error
MarshalText(l) == [data |-> String(l), err |-> "nil"]

\* UnmarshalText that refuses a text it does not know and leaves *l alone.
UnmarshalText_strict(l, data) ==
    CASE data = "DEBUG" -> [l |-> KLevelDebug, err |-> "nil"]
      [] data = "INFO" -> [l |-> KLevelInfo, err |-> "nil"]
      [] data = "WARN" -> [l |-> KLevelWarn, err |-> "nil"]
      [] data = "ERROR" -> [l |-> KLevelError, err |-> "nil"]
      [] data = "NONE" -> [l |-> KLevelNone, err |-> "nil"]
      [] OTHER -> [l |-> l, err |-> "unknown level"]

\* Level.UnmarshalText on *l: the level stored and the error returned
UnmarshalText(l, data) ==
    CASE data = "DEBUG" -> [l |-> KLevelDebug, err |-> "nil"]
      [] data = "INFO" -> [l |-> KLevelInfo, err |-> "nil"]
      [] data = "WARN" -> [l |-> KLevelWarn, err |-> "nil"]
      [] data = "ERROR" -> [l |-> KLevelError, err |-> "nil"]
      [] data = "NONE" -> [l |-> KLevelNone, err |-> "nil"]
      [] OTHER -> [l |-> KLevelInfo, err |-> "nil"]

LevelFromString(s) ==
    CASE s = "DEBUG" -> KLevelDebug
      [] s = "INFO" -> KLevelInfo
      [] s = "WARN" -> KLevelWarn
      [] s = "ERROR" -> KLevelError
      [] s = "NONE" -> KLevelNone
      [] OTHER -> KLevelInfo

\* conv: the Level variable, the text, the error of the last conversion,
\* the conversions made (latest last), and the level and the text the last
\* conversion started from.
NoConv ==
    [level |-> 0, text |-> "", err |-> "nil", ops |-> <<>>, fromLevel |-> 0,
     fromText |-> ""]

-----------------------------------------------------------------------------
(* The revision with Event: KLogger holds minLevel, clock, pathSegment,     *)
(* pathSeparator and parent, Level is klog's own int, and Log hands an      *)
(* Event to the handler.  Paths are sequences of separators and segments.   *)

\* New(): the logger before the options are applied
EventNew ==
    [minLevel |-> KLevelInfo, clock |-> 0, pathSegment |-> <<>>, pathSeparator |-> <<"::">>,
     parent |-> 0]

OptMinLevel(l, level) == [l EXCEPT !.minLevel = level]

\* OptMinLevelStr that leaves the logger as New made it.
OptMinLevelStr_ignored(l, level) == l

OptMinLevelStr(l, level) == OptMinLevel(l, LevelFromString(level))

OptClock(l, c) == [l EXCEPT !.clock = c]

OptPath(l, segment) == [l EXCEPT !.pathSegment = segment]

OptPathSeparator(l, separator) == [l EXCEPT !.pathSeparator = separator]

\* Enabled that lets a level through only above minLevel.
EventEnabled_above(l, level) == level > l.minLevel

\* KLogger.Enabled
EventEnabled(l, level) == level >= l.minLevel

\* buildPath with "." between the segments whatever the logger's separator.
RECURSIVE buildPath_dot(_, _)
buildPath_dot(l, ls) ==
    (IF l.parent # 0 THEN buildPath_dot(ls[l.parent], ls) ELSE <<>>)
        \o (IF l.pathSegment # <<>> THEN <<".">> \o l.pathSegment ELSE <<>>)

\* KLogger.buildPath: what it writes for logger l of the heap ls
RECURSIVE buildPath(_, _)
buildPath(l, ls) ==
    (IF l.parent # 0 THEN buildPath(ls[l.parent], ls) ELSE <<>>)
        \o (IF l.pathSegment # <<>> THEN l.pathSeparator \o l.pathSegment ELSE <<>>)

NewEvent(level, t, pc, path, msg) ==
    [Level |-> level, Time |-> t, PC |-> pc, Path |-> path, Message |-> msg, attrs |-> <<>>]

NoEvent == NewEvent(0, 0, 0, <<>>, "")

\* KLogger.Log of this revision: whether Handle was called, and the event
EventLog(l, ls, level, skip, msg, attrs, callers) ==
    IF ~EventEnabled(l, level) THEN [handled |-> FALSE, e |-> NoEvent]
    ELSE LET t == l.clock
             pc == linepc(1 + skip, callers)
             e == NewEvent(level, t, pc, buildPath(l, ls), msg)
         IN [handled |-> TRUE, e |-> [e EXCEPT !.attrs = @ \o attrs]]

\* KLogger.Sublogger of this revision: the logger at index p of the heap
\* is the parent.
EventSublogger(p, ls, pathSegment) ==
    [minLevel |-> ls[p].minLevel, clock |-> ls[p].clock, pathSegment |-> pathSegment,
     pathSeparator |-> ls[p].pathSeparator, parent |-> p]

NoEvCall ==
    [op |-> "none", lg |-> 0, level |-> 0, enabled |-> FALSE, handled |-> FALSE,
     e |-> NoEvent]

\* ev: the heap of loggers, the options the root was built with, and the
\* last call.
NoEv ==
    [rev |-> "none", loggers |-> <<>>, opt |-> "none", text |-> "", separator |-> <<>>,
     call |-> NoEvCall]

\* strings.ToUpper on the texts given
ToUpper(s) ==
    CASE s = "debug" -> "DEBUG"
      [] s = "Info" -> "INFO"
      [] s = "warn" -> "WARN"
      [] s = "None" -> "NONE"
      [] OTHER -> s

\* slog.Level.UnmarshalText, which the revision with Level = slog.Level
\* calls: the name is compared in upper case (none of the texts given
\* carries an offset), and a name that is not a level is an error.
SlogUnmarshalText(l, data) ==
    LET name == ToUpper(data)
    IN CASE name = "DEBUG" -> [l |-> LevelDebug, err |-> "nil"]
         [] name = "INFO" -> [l |-> LevelInfo, err |-> "nil"]
         [] name = "WARN" -> [l |-> LevelWarn, err |-> "nil"]
         [] name = "ERROR" -> [l |-> LevelError, err |-> "nil"]
         [] OTHER -> [l |-> l, err |-> "unknown name"]

\* OptMinLevelStr of the revision with Level = slog.Level, applied to the
\* logger l: the zero Level is LevelInfo.
SlogOptMinLevelStr(l, s) ==
    LET res == SlogUnmarshalText(LevelInfo, s)
        level == IF res.err # "nil" THEN LevelInfo ELSE res.l
    IN [l EXCEPT !.minLevel = level]

-----------------------------------------------------------------------------
(* SyncWriter: a pointer to a mutex and the writer underneath.  A mutex is  *)
(* the goroutine that holds it, 0 when it is free; a goroutine in Write is  *)
(* at mu.Lock ("Lock"), at the call of w.w.Write ("Call"), inside it        *)
(* ("Write"), or at the deferred mu.Unlock ("Unlock").                      *)

\* NewSyncWriter(w), the mutex allocated at index mu
NewSyncWriter(mu, w) == [mu |-> mu, w |-> w]

\* The deferred unlock that runs only when the underlying Write gave no error.
Unlock_onSuccess(holder, err) == IF err = "nil" THEN 0 ELSE holder

\* defer w.mu.Unlock(): the holder of the mutex afterwards
Unlock(holder, err) == 0

\* What the underlying Write may return for the slice p.
WriteResults(p) == {[n |-> Len(p), err |-> "nil"], [n |-> 0, err |-> "closed"]}

Idle == [pc |-> "idle", via |-> 0, p |-> <<>>, got |-> <<>>, n |-> 0, err |-> "nil"]

\* sw: the SyncWriter values (the one NewSyncWriter returned and a copy of
\* it), the mutexes, each goroutine's place in Write, the calls it has
\* finished and what the last one returned.
NoSw == [writers |-> <<>>, mu |-> <<>>, g |-> <<>>, calls |-> <<>>, ret |-> <<>>]

-----------------------------------------------------------------------------
(* The revision with Fields: Fields is a map from keys to values, a logger  *)
(* holds minLevel, clock, path, fields and parent, a context holds a chain  *)
(* of nodes with fields, and Log hands level, time, caller, path, message   *)
(* and the merged fields to the serializer.  A map is a function on its     *)
(* keys; a value tells where it was given.                                  *)

\* The Fields given at src (the call, a context node, a logger) number obj.
MkFields(src, obj, keys) == [k \in keys |-> [src |-> src, obj |-> obj]]

\* mergeFields in which a key of from replaces the one dest has.
mergeFields_overwrite(dest, from) ==
    [k \in DOMAIN dest \cup DOMAIN from |-> IF k \in DOMAIN from THEN from[k] ELSE dest[k]]

\* mergeFields(dest, from): dest afterwards
mergeFields(dest, from) ==
    [k \in DOMAIN dest \cup DOMAIN from |-> IF k \in DOMAIN dest THEN dest[k] ELSE from[k]]

\* for f := getCtxFields(ctx); f != nil; f = f.parent { mergeFields(allFields, f.fields) }
RECURSIVE MergeCtxFields(_, _, _)
MergeCtxFields(allFields, f, ns) ==
    IF f = 0 THEN allFields
    ELSE MergeCtxFields(mergeFields(allFields, ns[f].fields), ns[f].parent, ns)

\* for k := l; k != nil; k = k.parent { mergeFields(allFields, k.fields) }
RECURSIVE MergeLoggerFields(_, _, _)
MergeLoggerFields(allFields, k, ls) ==
    IF k = 0 THEN allFields
    ELSE MergeLoggerFields(mergeFields(allFields, ls[k].fields), ls[k].parent, ls)

\* KLogger.buildPath of this revision
RECURSIVE FieldsBuildPath(_, _)
FieldsBuildPath(l, ls) ==
    IF l = 0 THEN <<>>
    ELSE FieldsBuildPath(ls[l].parent, ls)
             \o (IF ls[l].path # <<>> THEN <<".">> \o ls[l].path ELSE <<>>)

\* KLogger.caller(skip): runtime.Callers(1+skip) counts Callers and caller
\* themselves, stack holds the frames above caller.
caller(skip, stack) ==
    IF skip = 0 THEN "caller"
    ELSE IF skip > Len(stack) THEN "nil" ELSE stack[skip]

NoFieldsRecord ==
    [level |-> 0, t |-> 0, caller |-> "nil", path |-> <<>>, msg |-> "", fields |-> <<>>]

\* KLogger.Log of logger l with the context whose fields node is c; above
\* holds the frames that called Log.  Gives whether the serializer was
\* called, and with what.
FieldsLog(l, ls, ns, c, level, skip, msg, fields, above) ==
    IF level < ls[l].minLevel THEN [logged |-> FALSE, rec |-> NoFieldsRecord]
    ELSE LET t == ls[l].clock
             frame == caller(1 + skip, <<"Log">> \o above)
             path == FieldsBuildPath(l, ls)
             allFields0 == mergeFields(<<>>, fields)
             allFields1 == MergeCtxFields(allFields0, c, ns)
             allFields == MergeLoggerFields(allFields1, l, ls)
         IN [logged |-> TRUE,
             rec |-> [level |-> level, t |-> t, caller |-> frame, path |-> path, msg |-> msg,
                      fields |-> allFields]]

\* KLogger.LogF: fn gives the message and the fields
LogF(l, ls, ns, c, level, skip, fn, above) ==
    IF level < ls[l].minLevel THEN [logged |-> FALSE, rec |-> NoFieldsRecord]
    ELSE FieldsLog(l, ls, ns, c, level, 1 + skip, fn.msg, fn.fields, <<"LogF">> \o above)

\* getErrFields: the message, and the fields "error" and "stacktrace"
getErrFields(err) ==
    LET msg == IF err.hasMsg THEN err.ErrorMsg ELSE "plain-error"
        stacktrace == IF err.hasStack THEN "StackString" ELSE "NONE"
    IN [msg |-> msg,
        fields |-> [error |-> [src |-> "err.Error", obj |-> 0],
                    stacktrace |-> [src |-> stacktrace, obj |-> 0]]]

\* NewLevelLogger of this revision
FieldsNewLevelLogger(l) == [Logger |-> l, Skip |-> 1]

\* LevelLogger.WarnErr and Err of this revision: the arguments handed to
\* Logger.Log
FieldsErrCall(ll, method, err, fields) ==
    LET e == getErrFields(err)
    IN [level |-> IF method = "WarnErr" THEN KLevelWarn ELSE KLevelError,
        skip |-> 1 + ll.Skip, msg |-> e.msg, fields |-> mergeFields(e.fields, fields)]

\* KLogger.Sublogger of this revision: the logger at index l is the parent
FieldsSublogger(l, ls, path, fields) ==
    [minLevel |-> ls[l].minLevel, clock |-> ls[l].clock, path |-> path, fields |-> fields,
     parent |-> l]

\* ExtendCtx(dest, ctx, fields): the node the context returned holds, c
\* being the node ctx holds
FieldsExtendCtx(c, fields) == [fields |-> fields, parent |-> c]

NoFieldsCall ==
    [op |-> "none", lg |-> 0, c |-> 0, level |-> 0, skip |-> 0, given |-> <<>>,
     logged |-> FALSE, rec |-> NoFieldsRecord]

\* fl: the heap of loggers, the heap of context nodes, and the last call.
NoFl == [loggers |-> <<>>, nodes |-> <<>>, call |-> NoFieldsCall]

-----------------------------------------------------------------------------
(* A group value shared by its holders.  ValueGroup keeps the slice it is   *)
(* given, and a Value is copied by value, so every copy of a group value    *)
(* points at one backing array.  A member is "leaf", "lazy" (a LogValuer    *)
(* that gives a leaf), "resolved" (the leaf a lazy member gave) or "torn"   *)
(* (what unsynchronized writes to one element may leave).                   *)

\* ValueGroup(v...): the value holds the slice at index slice
ValueGroup(slice) == [kind |-> "KindAny", slice |-> slice]

\* a.Value.resolveGroup(depth - 1) for a member that holds no group
ResolveMember(m) == IF m = "lazy" THEN "resolved" ELSE m

\* What the element holds after k[i].Value = val: val, or with another
\* goroutine at the same element and no synchronization, possibly a torn
\* value.
Stored(val, racing) == IF racing THEN {val, "torn"} ELSE {val}

IdleResolver == [pc |-> "idle", i |-> 0, val |-> "leaf"]

\* grp: the backing array, the array as ValueGroup was given it, the group
\* values held (by a context node, a handler, a call), the goroutines in
\* Resolve and the writes to the backing array.
NoGrp == [k |-> <<>>, made |-> <<>>, holders |-> <<>>, procs |-> <<>>, writes |-> {}]

-----------------------------------------------------------------------------
(* The state machine *)

NoCall ==
    [op |-> "none", h |-> 0, lg |-> 0, d |-> 0, s |-> 0, ctx |-> Background,
     r |-> NewRecord(0, 0, "", 0), ret |-> 0, level |-> 0, enabled |-> FALSE,
     clockRead |-> FALSE, pcCaptured |-> FALSE, handled |-> FALSE, out |-> NoRecord,
     method |-> "none", skip |-> 0, llSkip |-> 0, err |-> NoError, forwarded |-> <<>>]

\* New(OptHandler(NewSlogHandler(delegate)), OptMinLevel(minLevel), OptClock(clock))
InitHeap(floor, minLevel, clock) ==
    /\ handlers = <<NewSlogHandler(NewDelegate(floor), 1)>>
    /\ keySets = <<{}>>
    /\ derived = <<[parent |-> 0, seg |-> <<>>, asked |-> Asked(<<>>), reserved |-> FALSE]>>
    /\ nodes = <<>>
    /\ ctxs = <<Background>>
    /\ ctxMade = <<Nil>>
    /\ loggers = <<[handler |-> 1, minLevel |-> minLevel, clock |-> clock]>>
    /\ last = NoCall
    /\ procs = <<>>
    /\ writes = {}

InitWith(floor, minLevel, clock) ==
    /\ InitHeap(floor, minLevel, clock)
    /\ rsv = NoResolve
    /\ emit = NoEmit
    /\ conv = NoConv
    /\ ev = NoEv
    /\ sw = NoSw
    /\ fl = NoFl
    /\ grp = NoGrp

\* Handle, Enabled and Log allocate nothing and write to no heap: the state
\* after one differs from the state before it only in `last`, so every call
\* that can follow one can as well be made in its place.  A behaviour makes
\* such a call last; the states reached are those of all behaviours.
Observed == last.op \in {"Handle", "Enabled", "Log"}

\* h2 := handlers[p].Subhandler(seg, attrs)
SubhandlerAct(p, seg, keys, cap) ==
    /\ ~Observed
    /\ Len(handlers) < cap
    /\ LET n == Len(handlers) + 1
           attrs == MkAttrs("base", n, keys)
           res == Subhandler(handlers[p], seg, attrs, keySets)
       IN /\ handlers' = Append(handlers, res.h)
          /\ keySets' = res.keySets
          /\ derived' = Append(derived, [parent |-> p, seg |-> seg,
                                          asked |-> Asked(attrs),
                                          reserved |-> GaveReserved(attrs)])
          /\ last' = [NoCall EXCEPT !.op = "Subhandler", !.h = p, !.ret = n,
                                     !.r = AddAttrs(NoCall.r, attrs)]
    /\ UNCHANGED <<nodes, ctxs, ctxMade, loggers, procs, writes, rsv, emit, conv, ev, sw, fl, grp>>

\* l2 := loggers[l].Sublogger(seg, attrs...)
SubloggerAct(l, seg, keys, cap) ==
    /\ ~Observed
    /\ Len(handlers) < cap
    /\ LET n == Len(handlers) + 1
           attrs == MkAttrs("base", n, keys)
           res == Sublogger(loggers[l], handlers, seg, attrs, keySets)
       IN /\ handlers' = Append(handlers, res.h)
          /\ keySets' = res.keySets
          /\ loggers' = Append(loggers, res.l)
          /\ derived' = Append(derived, [parent |-> loggers[l].handler, seg |-> seg,
                                          asked |-> Asked(attrs),
                                          reserved |-> GaveReserved(attrs)])
          /\ last' = [NoCall EXCEPT !.op = "Sublogger", !.lg = l,
                                     !.h = loggers[l].handler, !.ret = Len(loggers) + 1,
                                     !.r = AddAttrs(NoCall.r, attrs)]
    /\ UNCHANGED <<nodes, ctxs, ctxMade, procs, writes, rsv, emit, conv, ev, sw, fl, grp>>

\* The context held at index i; index 0 is the nil context.
CtxAt(i) == IF i = 0 THEN NilCtx ELSE ctxs[i]

\* ctx2 := ExtendCtx(ctxs[d], CtxAt(s), attrs...)
ExtendCtxAct(d, s, keys, cap) ==
    /\ ~Observed
    /\ Len(nodes) < cap
    /\ LET n == Len(nodes) + 1
           attrs == MkAttrs("ctx", n, keys)
           res == ExtendCtx(ctxs[d], CtxAt(s), attrs, nodes)
       IN /\ nodes' = res.nodes
          /\ ctxs' = Append(ctxs, res.ctx)
          /\ ctxMade' = Append(ctxMade, n)
          /\ last' = [NoCall EXCEPT !.op = "ExtendCtx", !.d = d, !.s = s,
                                     !.r = AddAttrs(NoCall.r, attrs),
                                     !.ret = Len(ctxs) + 1]
    /\ UNCHANGED <<handlers, keySets, derived, loggers, procs, writes, rsv, emit, conv, ev, sw, fl, grp>>

\* ctx2 := CtxWithAttrs(ctxs[c], attrs...)
CtxWithAttrsAct(c, keys, cap) ==
    /\ ~Observed
    /\ Len(nodes) < cap
    /\ LET n == Len(nodes) + 1
           attrs == MkAttrs("ctx", n, keys)
           res == CtxWithAttrs(ctxs[c], attrs, nodes)
       IN /\ nodes' = res.nodes
          /\ ctxs' = Append(ctxs, res.ctx)
          /\ ctxMade' = Append(ctxMade, n)
          /\ last' = [NoCall EXCEPT !.op = "CtxWithAttrs", !.d = c, !.s = c,
                                     !.r = AddAttrs(NoCall.r, attrs),
                                     !.ret = Len(ctxs) + 1]
    /\ UNCHANGED <<handlers, keySets, derived, loggers, procs, writes, rsv, emit, conv, ev, sw, fl, grp>>

\* handlers[h].Handle(CtxAt(c), r)
HandleAct(h, c, t, pc, keys) ==
    /\ ~Observed
    /\ LET r == AddAttrs(NewRecord(t, LevelInfo, "m", pc), MkAttrs("call", 0, keys))
       IN last' = [NoCall EXCEPT !.op = "Handle", !.h = h, !.s = c, !.ctx = CtxAt(c),
                                  !.r = r, !.level = LevelInfo, !.handled = TRUE,
                                  !.out = Handle(handlers[h], keySets, nodes, CtxAt(c), r)]
    /\ UNCHANGED <<handlers, keySets, derived, nodes, ctxs, ctxMade, loggers, procs, writes, rsv, emit, conv, ev, sw, fl, grp>>

\* loggers[l].Enabled(ctx, level)
EnabledAct(l, level) ==
    /\ ~Observed
    /\ last' = [NoCall EXCEPT !.op = "Enabled", !.lg = l, !.h = loggers[l].handler,
                               !.level = level,
                               !.enabled = KLoggerEnabled(loggers[l], handlers, level)]
    /\ UNCHANGED <<handlers, keySets, derived, nodes, ctxs, ctxMade, loggers, procs, writes, rsv, emit, conv, ev, sw, fl, grp>>

\* loggers[l].Log(CtxAt(c), level, skip, "m", attrs...)
LogAct(l, c, level, skip, keys) ==
    /\ ~Observed
    /\ LET res == Log(loggers[l], handlers, keySets, nodes, CtxAt(c), level, skip, "m",
                      MkAttrs("call", 0, keys), CallerFrames)
       IN last' = [NoCall EXCEPT !.op = "Log", !.lg = l, !.h = loggers[l].handler,
                                  !.s = c, !.ctx = CtxAt(c), !.level = level, !.skip = skip,
                                  !.r = res.rec, !.clockRead = res.clockRead,
                                  !.pcCaptured = res.pcCaptured, !.handled = res.handled,
                                  !.out = res.out, !.forwarded = res.forwarded]
    /\ UNCHANGED <<handlers, keySets, derived, nodes, ctxs, ctxMade, loggers, procs, writes, rsv, emit, conv, ev, sw, fl, grp>>

\* The list of n keys j, ..., j, k.
KeysOfLen(n) == [i \in 1..n |-> IF i = n THEN "k" ELSE "j"]

\* Argument lists with ordinary keys: none, one key, the longest list.
UserKeyLists == {<<>>, <<"k">>, <<"j">>, KeysOfLen(MaxAttrs)}

DeriveKeyLists == {<<>>, <<"k">>, KeysOfLen(MaxAttrs)}

\* Argument lists for a chain node: the last is one longer than the node's
\* inline array.
ChainKeyLists == {<<>>, KeysOfLen(MaxAttrs), KeysOfLen(eventInlineAttrsSize + 1)}

\* A list with every key that checkAttrKey rejects, then an ordinary key
\* twice.
EveryKey == <<"", "t", "src", "mod", "level", "msg", "k", "k">>

\* Argument lists with every kind of key.
AllKeyLists == {<<>>, <<"k", "k">>, <<"mod", "k">>, EveryKey}

-----------------------------------------------------------------------------
(* Spec: attributes with ordinary keys from the handler ancestry, the       *)
(* context chain and the call site, merged by Handle.                      *)

Init == InitWith(LevelDebug, LevelInfo, 1)

Next ==
    \/ \E p \in 1..Len(handlers), keys \in UserKeyLists :
          SubhandlerAct(p, <<"a">>, keys, MaxMergeHandlers)
    \/ \E c \in 1..Len(ctxs), keys \in ChainKeyLists :
          CtxWithAttrsAct(c, keys, MaxMergeNodes)
    \/ \E h \in 1..Len(handlers), c \in 0..Len(ctxs), keys \in UserKeyLists :
          HandleAct(h, c, 1, 10, keys)

Spec == Init /\ [][Next]_vars

-----------------------------------------------------------------------------
(* SpecKeys: the same calls with every kind of key.                         *)

NextKeys ==
    \/ \E p \in 1..Len(handlers), seg \in {<<>>, <<"a">>}, keys \in AllKeyLists :
          SubhandlerAct(p, seg, keys, MaxKeysHandlers)
    \/ \E c \in 1..Len(ctxs), keys \in AllKeyLists :
          CtxWithAttrsAct(c, keys, MaxKeysNodes)
    \/ \E h \in 1..Len(handlers), c \in 0..Len(ctxs), f \in {<<0, 0>>, <<1, 10>>},
          keys \in AllKeyLists : HandleAct(h, c, f[1], f[2], keys)

SpecKeys == Init /\ [][NextKeys]_vars

\* SpecKeySets: handlers derived from any handler, to the depth of
\* MaxHandlers, with attribute lists of every kind of key.
NextKeySets ==
    \E p \in 1..Len(handlers), seg \in {<<>>, <<"a">>},
       keys \in AllKeyLists \cup {<<"k">>, <<"j", "k">>} :
        SubhandlerAct(p, seg, keys, MaxHandlers)

SpecKeySets == Init /\ [][NextKeySets]_vars

-----------------------------------------------------------------------------
(* SpecDerive: chains of Subhandler and Sublogger derivations.              *)

NextDerive ==
    \/ \E p \in 1..Len(handlers), seg \in Segments, keys \in DeriveKeyLists :
          SubhandlerAct(p, seg, keys, MaxHandlers)
    \/ \E l \in 1..Len(loggers), seg \in Segments, keys \in DeriveKeyLists :
          SubloggerAct(l, seg, keys, MaxHandlers)
    \/ \E h \in 1..Len(handlers), keys \in DeriveKeyLists : HandleAct(h, 0, 1, 10, keys)

SpecDerive == Init /\ [][NextDerive]_vars

-----------------------------------------------------------------------------
(* SpecLog: loggers of every minimum level over delegates with a floor.     *)

InitLog ==
    \E floor \in {LevelDebug, LevelWarn}, minLevel \in Levels, clock \in {0, 1} :
        InitWith(floor, minLevel, clock)

NextLog ==
    \/ \E l \in 1..Len(loggers), seg \in {<<>>, <<"a">>}, keys \in {<<>>, <<"k">>} :
          SubloggerAct(l, seg, keys, MaxLogHandlers)
    \/ \E l \in 1..Len(loggers), level \in Levels : EnabledAct(l, level)
    \/ \E l \in 1..Len(loggers), c \in 0..Len(ctxs), level \in Levels, skip \in {0, 2},
          keys \in {<<>>, <<"k">>} : LogAct(l, c, level, skip, keys)

SpecLog == InitLog /\ [][NextLog]_vars

-----------------------------------------------------------------------------
(* SpecCtx: contexts extended from held contexts and from nil.              *)

NextCtx ==
    \/ \E d \in 1..Len(ctxs), s \in 0..Len(ctxs), keys \in ChainKeyLists :
          ExtendCtxAct(d, s, keys, MaxCtxNodes)
    \/ \E c \in 1..Len(ctxs), keys \in ChainKeyLists :
          CtxWithAttrsAct(c, keys, MaxCtxNodes)

SpecCtx == Init /\ [][NextCtx]_vars

-----------------------------------------------------------------------------
(* SpecConc: goroutines that call Subhandler and Handle on handlers they    *)
(* share, one statement at a time.  A goroutine is                         *)
(* [op, target, seg, attrs, r, pc, i, h2, attrsToAdd, st, out]: h2 is the   *)
(* handler Subhandler is building, st the attrKeys and r2 of Handle.       *)

NoProc ==
    [op |-> "none", target |-> 0, seg |-> <<>>, attrs |-> <<>>,
     r |-> NewRecord(0, 0, "", 0), pc |-> "done", i |-> 0, h2 |-> 0,
     attrsToAdd |-> <<>>, st |-> [attrKeys |-> {}, r2 |-> NewRecord(0, 0, "", 0)],
     out |-> NoRecord]

HandlerObj(n) == [kind |-> "handler", id |-> n]
MapObj(n) == [kind |-> "map", id |-> n]

\* The handlers a goroutine can hold: all but those still being built.
Published ==
    {h \in 1..Len(handlers) :
        \A i \in 1..Len(procs) :
            (procs[i].op = "Subhandler" /\ procs[i].pc # "done") => procs[i].h2 # h}

\* The heap after h := NewSlogHandler(delegate); h.Subhandler("a", k)
InitConc ==
    LET root == NewSlogHandler(NewDelegate(LevelDebug), 1)
        attrs == MkAttrs("base", 2, <<"k">>)
        sub == Subhandler(root, <<"a">>, attrs, <<{}>>)
    IN /\ handlers = <<root, sub.h>>
       /\ keySets = sub.keySets
       /\ derived = <<[parent |-> 0, seg |-> <<>>, asked |-> Asked(<<>>), reserved |-> FALSE],
                      [parent |-> 1, seg |-> <<"a">>, asked |-> Asked(attrs),
                       reserved |-> FALSE]>>
       /\ nodes = <<>>
       /\ ctxs = <<Background>>
       /\ ctxMade = <<Nil>>
       /\ loggers = <<[handler |-> 1, minLevel |-> LevelInfo, clock |-> 1]>>
       /\ last = NoCall
       /\ procs = <<>>
       /\ writes = {}
       /\ rsv = NoResolve
       /\ emit = NoEmit
       /\ conv = NoConv
       /\ ev = NoEv
       /\ sw = NoSw
       /\ fl = NoFl
       /\ grp = NoGrp

ConcUnchanged == UNCHANGED <<nodes, ctxs, ctxMade, loggers, last, rsv, emit, conv, ev, sw, fl, grp>>

\* go handlers[p].Subhandler(seg, attrs)
GoSubhandler(p, seg, keys) ==
    /\ Len(procs) < MaxProcs
    /\ p \in Published
    /\ procs' = Append(procs, [NoProc EXCEPT !.op = "Subhandler", !.target = p,
                                  !.seg = seg,
                                  !.attrs = MkAttrs("base", Len(procs) + 10, keys),
                                  !.pc = "clone"])
    /\ writes' = {}
    /\ UNCHANGED <<handlers, keySets, derived>>
    /\ ConcUnchanged

\* go handlers[p].Handle(nil, r)
GoHandle(p, keys) ==
    /\ Len(procs) < MaxProcs
    /\ p \in Published
    /\ procs' = Append(procs, [NoProc EXCEPT !.op = "Handle", !.target = p,
                                  !.r = AddAttrs(NewRecord(1, LevelInfo, "m", 10),
                                                 MkAttrs("call", Len(procs) + 10, keys)),
                                  !.pc = "fields"])
    /\ writes' = {}
    /\ UNCHANGED <<handlers, keySets, derived>>
    /\ ConcUnchanged

\* h2 := h.clone()
StepClone(i) ==
    /\ procs[i].op = "Subhandler" /\ procs[i].pc = "clone"
    /\ LET c == clone(handlers[procs[i].target], keySets)
           n == Len(handlers) + 1
       IN /\ handlers' = Append(handlers, c.h)
          /\ keySets' = c.keySets
          /\ derived' = Append(derived, [parent |-> procs[i].target, seg |-> procs[i].seg,
                                          asked |-> Asked(procs[i].attrs),
                                          reserved |-> GaveReserved(procs[i].attrs)])
          /\ procs' = [procs EXCEPT ![i].h2 = n, ![i].pc = "mod"]
          /\ writes' = {HandlerObj(n)} \cup {MapObj(m) : m \in (Len(keySets) + 1)..Len(c.keySets)}
    /\ ConcUnchanged

\* if modSegment != "" { h2.Mod += h2.ModSeparator + modSegment }
StepMod(i) ==
    /\ procs[i].op = "Subhandler" /\ procs[i].pc = "mod"
    /\ LET h2 == procs[i].h2
       IN /\ IF procs[i].seg # <<>>
             THEN /\ handlers' = [handlers EXCEPT ![h2].Mod =
                                     @ \o handlers[h2].ModSeparator \o procs[i].seg]
                  /\ writes' = {HandlerObj(h2)}
             ELSE /\ UNCHANGED handlers
                  /\ writes' = {}
          /\ procs' = [procs EXCEPT ![i].pc = IF Len(procs[i].attrs) > 0 THEN "loop" ELSE "ret",
                                    ![i].i = 1]
    /\ UNCHANGED <<keySets, derived>>
    /\ ConcUnchanged

\* one iteration of the loop over attrs
StepLoop(i) ==
    /\ procs[i].op = "Subhandler" /\ procs[i].pc = "loop"
    /\ LET h2 == procs[i].h2
           l == SubhandlerLoop(handlers[h2], <<procs[i].attrs[procs[i].i]>>, 1,
                               keySets, procs[i].attrsToAdd)
           more == procs[i].i < Len(procs[i].attrs)
       IN /\ keySets' = l.keySets
          /\ writes' = {MapObj(m) : m \in {x \in 1..Len(keySets) : l.keySets[x] # keySets[x]}}
          /\ procs' = [procs EXCEPT ![i].attrsToAdd = l.attrsToAdd,
                                    ![i].i = @ + 1,
                                    ![i].pc = IF more THEN "loop"
                                              ELSE IF Len(l.attrsToAdd) > 0 THEN "with"
                                              ELSE "ret"]
    /\ UNCHANGED <<handlers, derived>>
    /\ ConcUnchanged

\* h2.slogHandler = h2.slogHandler.WithAttrs(attrsToAdd)
StepWithAttrs(i) ==
    /\ procs[i].op = "Subhandler" /\ procs[i].pc = "with"
    /\ handlers' = [handlers EXCEPT ![procs[i].h2].slogHandler =
                        WithAttrs(@, procs[i].attrsToAdd)]
    /\ writes' = {HandlerObj(procs[i].h2)}
    /\ procs' = [procs EXCEPT ![i].pc = "ret"]
    /\ UNCHANGED <<keySets, derived>>
    /\ ConcUnchanged

\* return h2
StepReturn(i) ==
    /\ procs[i].op = "Subhandler" /\ procs[i].pc = "ret"
    /\ procs' = [procs EXCEPT ![i].pc = "done"]
    /\ writes' = {}
    /\ UNCHANGED <<handlers, keySets, derived>>
    /\ ConcUnchanged

\* r2 := NewRecord(...) and the time, source and module fields
StepFields(i) ==
    /\ procs[i].op = "Handle" /\ procs[i].pc = "fields"
    /\ procs' = [procs EXCEPT ![i].st = [attrKeys |-> {},
                                          r2 |-> HandleFields(handlers[procs[i].target],
                                                              procs[i].r)],
                              ![i].i = 1,
                              ![i].pc = IF Len(procs[i].r.attrs) > 0 THEN "attrs" ELSE "forward"]
    /\ writes' = {}
    /\ UNCHANGED <<handlers, keySets, derived>>
    /\ ConcUnchanged

\* addFilteredAttrs for one attribute of the record
StepAttr(i) ==
    /\ procs[i].op = "Handle" /\ procs[i].pc = "attrs"
    /\ procs' = [procs EXCEPT ![i].st = addFilteredAttrs(handlers[procs[i].target], keySets,
                                             <<procs[i].r.attrs[procs[i].i]>>, 1, @),
                              ![i].i = @ + 1,
                              ![i].pc = IF procs[i].i < Len(procs[i].r.attrs)
                                        THEN "attrs" ELSE "forward"]
    /\ writes' = {}
    /\ UNCHANGED <<handlers, keySets, derived>>
    /\ ConcUnchanged

\* return h.slogHandler.Handle(ctx, r2)
StepForward(i) ==
    /\ procs[i].op = "Handle" /\ procs[i].pc = "forward"
    /\ procs' = [procs EXCEPT ![i].out = DelegateHandle(handlers[procs[i].target].slogHandler,
                                                        procs[i].st.r2),
                              ![i].pc = "done"]
    /\ writes' = {}
    /\ UNCHANGED <<handlers, keySets, derived>>
    /\ ConcUnchanged

\* The segment and keys of the Subhandler calls: a segment alone, a key
\* alone, a segment with the longest list.
ConcSubhandlerArgs ==
    {<< <<"b">>, <<>> >>, << <<>>, <<"k">> >>, << <<"b">>, KeysOfLen(MaxAttrs) >>}

NextConc ==
    \/ \E p \in 1..Len(handlers), a \in ConcSubhandlerArgs : GoSubhandler(p, a[1], a[2])
    \/ \E p \in 1..Len(handlers), keys \in {<<>>, KeysOfLen(MaxAttrs)} : GoHandle(p, keys)
    \/ \E i \in 1..Len(procs) : StepClone(i)
    \/ \E i \in 1..Len(procs) : StepMod(i)
    \/ \E i \in 1..Len(procs) : StepLoop(i)
    \/ \E i \in 1..Len(procs) : StepWithAttrs(i)
    \/ \E i \in 1..Len(procs) : StepReturn(i)
    \/ \E i \in 1..Len(procs) : StepFields(i)
    \/ \E i \in 1..Len(procs) : StepAttr(i)
    \/ \E i \in 1..Len(procs) : StepForward(i)

SpecConc == InitConc /\ [][NextConc]_vars

-----------------------------------------------------------------------------
(* SpecResolve: one call of Value.Resolve, statement by statement.          *)

\* The chains are empty, short, one short of the limit, at the limit and
\* beyond it; so are the nests.  Deep nests come with few lazy steps.
InitResolve ==
    /\ InitHeap(LevelDebug, LevelInfo, 1)
    /\ \E c \in {0, 1, valueResolveRecursionLimit - 1, valueResolveRecursionLimit, MaxChain},
          g \in {0, 1, 2, valueResolveRecursionLimit, valueResolveRecursionLimit + 1, MaxNest},
          cyc \in BOOLEAN :
          /\ cyc => (g = 0 /\ c < valueResolveRecursionLimit)
          /\ (g > 2) => c < valueResolveRecursionLimit
          /\ rsv = ResolveCall(Start(c, g, cyc))
    /\ emit = NoEmit
    /\ conv = NoConv
    /\ ev = NoEv
    /\ sw = NoSw
    /\ fl = NoFl
    /\ grp = NoGrp

InitSelfLazy ==
    /\ InitHeap(LevelDebug, LevelInfo, 1)
    /\ rsv = ResolveCall(SelfLazy)
    /\ emit = NoEmit
    /\ conv = NoConv
    /\ ev = NoEv
    /\ sw = NoSw
    /\ fl = NoFl
    /\ grp = NoGrp

ResolveUnchanged ==
    UNCHANGED <<handlers, keySets, derived, nodes, ctxs, ctxMade, loggers, last, procs, writes,
                emit, conv, ev, sw, fl, grp>>

Tick(r) == [r EXCEPT !.steps = @ + 1]

\* v = k.LogValue()
StepLogValue ==
    /\ rsv.pc = "loop" /\ rsv.steps < StepCap
    /\ loopContinues(rsv.i) /\ IsLogValuer(rsv.v)
    /\ rsv' = Tick([rsv EXCEPT !.v = LogValue(rsv.v), !.i = @ + 1, !.calls = @ + 1,
                               !.callsAll = @ + 1,
                               !.callsMax = IF rsv.calls + 1 > @ THEN rsv.calls + 1 ELSE @])
    /\ ResolveUnchanged

\* return v: the value is not KindAny or holds no LogValuer
StepLoopReturn ==
    /\ rsv.pc = "loop" /\ rsv.steps < StepCap
    /\ loopContinues(rsv.i) /\ ~IsLogValuer(rsv.v)
    /\ rsv' = Tick([rsv EXCEPT !.pc = "group"])
    /\ ResolveUnchanged

\* return ValueAny(fmt.Errorf(...)): the loop ran out
StepLoopOverflow ==
    /\ rsv.pc = "loop" /\ rsv.steps < StepCap
    /\ ~loopContinues(rsv.i)
    /\ rsv' = Tick([rsv EXCEPT !.pc = "group", !.v = SentinelValue])
    /\ ResolveUnchanged

\* k[i].Value = a.Value.resolveGroup(depth - 1)
StepMember ==
    /\ rsv.pc = "group" /\ rsv.steps < StepCap
    /\ IsGroup(rsv.v) /\ ~(rsv.depth < 0)
    /\ rsv' = Tick([rsv EXCEPT !.pc = "loop", !.v = Member(rsv.v),
                               !.depth = memberDepth(rsv.depth), !.i = 0, !.calls = 0,
                               !.levels = @ + 1])
    /\ ResolveUnchanged

\* k[i].Value = ValueAny(fmt.Errorf(...)): depth < 0
StepMemberOverflow ==
    /\ rsv.pc = "group" /\ rsv.steps < StepCap
    /\ IsGroup(rsv.v) /\ rsv.depth < 0
    /\ rsv' = Tick([rsv EXCEPT !.pc = "return", !.end = "error", !.up = rsv.levels])
    /\ ResolveUnchanged

\* return v: the value is not a group
StepLeaf ==
    /\ rsv.pc = "group" /\ rsv.steps < StepCap
    /\ ~IsGroup(rsv.v)
    /\ rsv' = Tick([rsv EXCEPT !.pc = "return", !.end = rsv.v.kind, !.up = rsv.levels])
    /\ ResolveUnchanged

\* return v from resolveGroup: to the resolveGroup one level up, or to Resolve
StepGroupReturn ==
    /\ rsv.pc = "return" /\ rsv.steps < StepCap
    /\ rsv' = Tick([rsv EXCEPT !.pc = IF rsv.up = 0 THEN "done" ELSE "return",
                               !.up = IF rsv.up = 0 THEN 0 ELSE @ - 1])
    /\ ResolveUnchanged

NextResolve ==
    \/ StepLogValue
    \/ StepLoopReturn
    \/ StepLoopOverflow
    \/ StepMember
    \/ StepMemberOverflow
    \/ StepLeaf
    \/ StepGroupReturn

\* A call that has started runs on.
SpecResolve == (InitResolve \/ InitSelfLazy) /\ [][NextResolve]_vars /\ WF_vars(NextResolve)

-----------------------------------------------------------------------------
(* SpecEmit: calls of KLogger.Log on a logger whose delegate may fail.      *)

InitEmit ==
    /\ InitHeap(LevelDebug, LevelInfo, 1)
    /\ rsv = NoResolve
    /\ \E d \in {"serializer", "slog"} :
          emit = [NoEmit EXCEPT !.pc = "idle", !.delegate = d, !.minLevel = LevelInfo]
    /\ conv = NoConv
    /\ ev = NoEv
    /\ sw = NoSw
    /\ fl = NoFl
    /\ grp = NoGrp

EmitUnchanged ==
    UNCHANGED <<handlers, keySets, derived, nodes, ctxs, ctxMade, loggers, last, procs, writes,
                rsv, conv, ev, sw, fl, grp>>

\* KLogger.Log up to the call of the delegate; a level below minLevel
\* returns at once.
EmitLog(level, fail) ==
    /\ emit.pc \in {"idle", "returned"}
    /\ emit.calls < MaxEmits
    /\ emit' = IF level < emit.minLevel
               THEN [emit EXCEPT !.pc = "returned", !.ret = "normal", !.calls = @ + 1,
                                 !.fail = "none"]
               ELSE [emit EXCEPT !.pc = IF emit.delegate = "serializer" THEN "encode"
                                        ELSE "handle",
                                 !.ret = "none", !.calls = @ + 1, !.fail = fail]
    /\ EmitUnchanged

\* JSONSerializer.Log: if err := j.Encode(allFields); err != nil
StepEncode ==
    /\ emit.pc = "encode"
    /\ LET err == Encode(emit.fail)
       IN emit' = IF err # "none"
                  THEN [emit EXCEPT !.pc = "returned", !.ret = "normal",
                                    !.errorLog = reportError(@, err),
                                    !.failed = Append(@, err)]
                  ELSE [emit EXCEPT !.pc = "copy"]
    /\ EmitUnchanged

\* JSONSerializer.Log: if _, err := io.Copy(s.W, &b); err != nil
StepCopy ==
    /\ emit.pc = "copy"
    /\ LET err == Copy(emit.fail)
       IN emit' = IF err # "none"
                  THEN [emit EXCEPT !.pc = "returned", !.ret = "normal",
                                    !.errorLog = reportError(@, err),
                                    !.failed = Append(@, err)]
                  ELSE [emit EXCEPT !.pc = "returned", !.ret = "normal", !.W = @ + 1]
    /\ EmitUnchanged

\* SlogHandler.Handle: return h.slogHandler.Handle(ctx, r2)
StepSlogHandle ==
    /\ emit.pc = "handle"
    /\ LET err == SlogHandle(emit.fail)
       IN emit' = IF err # "none"
                  THEN [emit EXCEPT !.pc = "discard", !.err = err, !.failed = Append(@, err)]
                  ELSE [emit EXCEPT !.pc = "discard", !.err = "none", !.W = @ + 1]
    /\ EmitUnchanged

\* KLogger.Log: _ = l.handler.Handle(ctx, rec)
StepDiscard ==
    /\ emit.pc = "discard"
    /\ emit' = [emit EXCEPT !.pc = "returned", !.ret = "normal", !.err = "none",
                            !.lost = IF emit.err # "none" THEN @ + 1 ELSE @]
    /\ EmitUnchanged

NextEmit ==
    \/ \E level \in {LevelDebug, LevelInfo}, fail \in Failures : EmitLog(level, fail)
    \/ StepEncode
    \/ StepCopy
    \/ StepSlogHandle
    \/ StepDiscard

SpecEmit == InitEmit /\ [][NextEmit]_vars

-----------------------------------------------------------------------------
(* SpecSub: chains of Sublogger derivations from roots of every minimum     *)
(* level and clock, each logger asked for Enabled and given records.        *)

InitSub ==
    \E floor \in {LevelDebug, LevelWarn}, minLevel \in Levels, clock \in {1, 2} :
        InitWith(floor, minLevel, clock)

NextSub ==
    \/ \E l \in 1..Len(loggers), keys \in {<<>>, <<"k">>} :
          SubloggerAct(l, <<"a">>, keys, MaxHandlers)
    \/ \E l \in 1..Len(loggers), level \in Levels : EnabledAct(l, level)
    \/ \E l \in 1..Len(loggers), level \in Levels : LogAct(l, 0, level, 0, <<>>)

SpecSub == InitSub /\ [][NextSub]_vars

-----------------------------------------------------------------------------
(* SpecLevel: Log called with a skip, and the LevelLogger methods.          *)

\* ll := &LevelLogger{Logger: loggers[l], Skip: skip}; ll.<method>(CtxAt(c), ...)
\* called from the frames CallerFrames; the message methods are given "m",
\* the error methods err.
LevelAct(l, c, skip, method, err, keys) ==
    /\ ~Observed
    /\ LET ll == [NewLevelLogger(l) EXCEPT !.Skip = skip]
           call == LevelLoggerCall(ll, method, "m", err, MkAttrs("call", 0, keys))
           res == Log(loggers[ll.Logger], handlers, keySets, nodes, CtxAt(c), call.level,
                      call.skip, call.msg, call.attrs, <<PCLevelMethod>> \o CallerFrames)
       IN last' = [NoCall EXCEPT !.op = "Level", !.method = method, !.llSkip = skip,
                                  !.skip = call.skip, !.lg = l, !.h = loggers[l].handler,
                                  !.err = IF method \in {"WarnErr", "Err"} THEN err ELSE NoError,
                                  !.s = c, !.ctx = CtxAt(c), !.level = call.level,
                                  !.r = res.rec, !.clockRead = res.clockRead,
                                  !.pcCaptured = res.pcCaptured, !.handled = res.handled,
                                  !.out = res.out, !.forwarded = res.forwarded]
    /\ UNCHANGED <<handlers, keySets, derived, nodes, ctxs, ctxMade, loggers, procs, writes, rsv, emit, conv, ev, sw, fl, grp>>

InitLevel ==
    \E floor \in {LevelDebug, LevelWarn}, minLevel \in Levels : InitWith(floor, minLevel, 1)

NextLevel ==
    \/ \E level \in Levels, skip \in 0..MaxSkip : LogAct(1, 0, level, skip, <<>>)
    \/ \E skip \in {0, 1}, method \in Methods, err \in Errors, keys \in {<<>>, <<"k">>} :
          LevelAct(1, 0, skip, method, err, keys)

SpecLevel == InitLevel /\ [][NextLevel]_vars

-----------------------------------------------------------------------------
(* SpecText: a Level or a text is given, and conversions are applied to it  *)
(* one after the other.                                                     *)

InitText ==
    /\ InitHeap(LevelDebug, LevelInfo, 1)
    /\ rsv = NoResolve
    /\ emit = NoEmit
    /\ \E l \in LevelValues, s \in Texts : conv = [NoConv EXCEPT !.level = l, !.text = s]
    /\ ev = NoEv
    /\ sw = NoSw
    /\ fl = NoFl
    /\ grp = NoGrp

TextUnchanged ==
    UNCHANGED <<handlers, keySets, derived, nodes, ctxs, ctxMade, loggers, last, procs, writes,
                rsv, emit, ev, sw, fl, grp>>

\* conv.text = conv.level.String()
StringAct ==
    /\ Len(conv.ops) < MaxConversions
    /\ conv' = [conv EXCEPT !.text = String(conv.level), !.err = "nil",
                            !.ops = Append(@, "String"),
                            !.fromLevel = conv.level, !.fromText = conv.text]
    /\ TextUnchanged

\* conv.text, err = conv.level.MarshalText()
MarshalTextAct ==
    /\ Len(conv.ops) < MaxConversions
    /\ LET m == MarshalText(conv.level)
       IN conv' = [conv EXCEPT !.text = m.data, !.err = m.err,
                               !.ops = Append(@, "MarshalText"),
                               !.fromLevel = conv.level, !.fromText = conv.text]
    /\ TextUnchanged

\* err = conv.level.UnmarshalText(conv.text)
UnmarshalTextAct ==
    /\ Len(conv.ops) < MaxConversions
    /\ LET u == UnmarshalText(conv.level, conv.text)
       IN conv' = [conv EXCEPT !.level = u.l, !.err = u.err,
                               !.ops = Append(@, "UnmarshalText"),
                               !.fromLevel = conv.level, !.fromText = conv.text]
    /\ TextUnchanged

\* conv.level = LevelFromString(conv.text)
LevelFromStringAct ==
    /\ Len(conv.ops) < MaxConversions
    /\ conv' = [conv EXCEPT !.level = LevelFromString(conv.text), !.err = "nil",
                            !.ops = Append(@, "LevelFromString"),
                            !.fromLevel = conv.level, !.fromText = conv.text]
    /\ TextUnchanged

NextText ==
    \/ StringAct
    \/ MarshalTextAct
    \/ UnmarshalTextAct
    \/ LevelFromStringAct

SpecText == InitText /\ [][NextText]_vars

-----------------------------------------------------------------------------
(* Loggers of the revision with Event, built by New with every way of       *)
(* giving the minimum level and with or without a separator.                *)

\* The ways the root is given its minimum level: not at all, OptMinLevel,
\* OptMinLevelStr.
WithMinLevel(l, opt, level, text) ==
    CASE opt = "none" -> l
      [] opt = "OptMinLevel" -> OptMinLevel(l, level)
      [] opt = "OptMinLevelStr" -> OptMinLevelStr(l, text)

InitEvent ==
    /\ InitHeap(LevelDebug, LevelInfo, 1)
    /\ rsv = NoResolve
    /\ emit = NoEmit
    /\ conv = NoConv
    /\ sw = NoSw
    /\ fl = NoFl
    /\ grp = NoGrp
    /\ \E opt \in {"none", "OptMinLevel", "OptMinLevelStr"},
          level \in KLevelDebug..KLevelNone, text \in Texts,
          separator \in {<<>>, <<".">>}, segment \in {<<>>, <<"a">>} :
          /\ opt # "OptMinLevel" => level = KLevelDebug
          /\ opt # "OptMinLevelStr" => text = ""
          /\ LET l0 == OptPath(OptClock(EventNew, 1), segment)
                 l1 == IF separator = <<>> THEN l0 ELSE OptPathSeparator(l0, separator)
                 mark == IF opt = "OptMinLevel" THEN String(level) ELSE text
             IN ev = [NoEv EXCEPT !.rev = "Event",
                                  !.loggers = <<WithMinLevel(l1, opt, level, text)>>,
                                  !.opt = opt, !.text = mark, !.separator = separator]

EventUnchanged ==
    UNCHANGED <<handlers, keySets, derived, nodes, ctxs, ctxMade, loggers, last, procs, writes,
                rsv, emit, conv, sw, fl, grp>>

\* ev.loggers[p].Sublogger(segment)
EventSubloggerAct(p, segment) ==
    /\ Len(ev.loggers) < MaxEventLoggers
    /\ ev' = [ev EXCEPT !.loggers = Append(@, EventSublogger(p, ev.loggers, segment)),
                        !.call = [NoEvCall EXCEPT !.op = "Sublogger", !.lg = p]]
    /\ EventUnchanged

\* ev.loggers[l].Enabled(level)
EventEnabledAct(l, level) ==
    /\ ev' = [ev EXCEPT !.call = [NoEvCall EXCEPT !.op = "Enabled", !.lg = l, !.level = level,
                                     !.enabled = EventEnabled(ev.loggers[l], level)]]
    /\ EventUnchanged

\* ev.loggers[l].Log(ctx, level, 0, "m")
EventLogAct(l, level) ==
    /\ LET res == EventLog(ev.loggers[l], ev.loggers, level, 0, "m", <<>>, CallerFrames)
       IN ev' = [ev EXCEPT !.call = [NoEvCall EXCEPT !.op = "Log", !.lg = l, !.level = level,
                                        !.handled = res.handled, !.e = res.e]]
    /\ EventUnchanged

\* SpecPath: a root of the revision with Event built with or without a
\* separator, and a handler built by NewSlogHandler; subloggers and
\* subhandlers are derived in a chain and the loggers write.
InitPath == InitEvent /\ ev.opt = "none"

NextPath ==
    \/ \E segment \in {<<>>, <<"a">>, <<"b">>} : EventSubloggerAct(Len(ev.loggers), segment)
    \/ \E l \in 1..Len(ev.loggers) : EventLogAct(l, KLevelInfo)
    \/ \E seg \in {<<>>, <<"a">>, <<"b">>} :
          SubhandlerAct(Len(handlers), seg, <<>>, MaxHandlers)

SpecPath == InitPath /\ [][NextPath]_vars

-----------------------------------------------------------------------------
(* SpecMinLevel: roots given their minimum level by OptMinLevelStr, in the  *)
(* revision with klog's own Level and in the one with Level = slog.Level,   *)
(* asked for Enabled and given calls of Log at every level.                 *)

\* New(OptHandler(NewSlogHandler(delegate)), OptMinLevelStr(text), OptClock(1))
InitSlogMinLevel ==
    \E floor \in {LevelDebug, LevelWarn}, text \in Texts :
        /\ InitHeap(floor, LevelInfo, 1)
        /\ rsv = NoResolve
        /\ emit = NoEmit
        /\ conv = NoConv
        /\ ev = [NoEv EXCEPT !.rev = "slog", !.opt = "OptMinLevelStr", !.text = text]
        /\ sw = NoSw
        /\ fl = NoFl
        /\ grp = NoGrp

\* The option is applied to the root New made.
ApplySlogMinLevel ==
    /\ ev.rev = "slog"
    /\ ev.call.op = "none"
    /\ loggers' = [loggers EXCEPT ![1] = SlogOptMinLevelStr(@, ev.text)]
    /\ ev' = [ev EXCEPT !.call = [NoEvCall EXCEPT !.op = "Opt"]]
    /\ UNCHANGED <<handlers, keySets, derived, nodes, ctxs, ctxMade, last, procs, writes,
                   rsv, emit, conv, sw, fl, grp>>

NextMinLevel ==
    \/ ApplySlogMinLevel
    \/ \E level \in Levels : ev.rev = "slog" /\ ev.call.op = "Opt" /\ EnabledAct(1, level)
    \/ \E level \in Levels :
          ev.rev = "slog" /\ ev.call.op = "Opt" /\ LogAct(1, 0, level, 0, <<>>)
    \/ \E level \in LevelValues : ev.rev = "Event" /\ EventEnabledAct(1, level)
    \/ \E level \in LevelValues : ev.rev = "Event" /\ EventLogAct(1, level)

SpecMinLevel == (InitEvent \/ InitSlogMinLevel) /\ [][NextMinLevel]_vars

-----------------------------------------------------------------------------
(* SpecSync: goroutines call Write on one SyncWriter and on a copy of it,   *)
(* each call with a slice of its own.  A goroutine that is in Write goes on *)
(* (the Go scheduler runs every runnable goroutine, a free mutex is handed  *)
(* to a goroutine waiting for it, and the writer underneath returns); the   *)
(* callers need not call.                                                   *)

InitSync ==
    /\ InitHeap(LevelDebug, LevelInfo, 1)
    /\ rsv = NoResolve
    /\ emit = NoEmit
    /\ conv = NoConv
    /\ ev = NoEv
    /\ fl = NoFl
    /\ grp = NoGrp
    /\ LET w1 == NewSyncWriter(1, 1)
       IN sw = [writers |-> <<w1, w1>>, mu |-> <<0>>,
                g |-> [i \in 1..MaxWriters |-> Idle],
                calls |-> [i \in 1..MaxWriters |-> 0],
                ret |-> [i \in 1..MaxWriters |-> [n |-> 0, err |-> "none"]]]

SyncUnchanged ==
    UNCHANGED <<handlers, keySets, derived, nodes, ctxs, ctxMade, loggers, last, procs, writes,
                rsv, emit, conv, ev, fl, grp>>

\* The slice goroutine i passes in its next call.
NextSlice(i) == <<i, sw.calls[i] + 1>>

\* go sw.writers[via].Write(p)
WriteCall(i, via) ==
    /\ sw.g[i].pc = "idle"
    /\ sw.calls[i] < MaxWrites
    /\ sw' = [sw EXCEPT !.g[i] = [Idle EXCEPT !.pc = "Lock", !.via = via, !.p = NextSlice(i)]]
    /\ SyncUnchanged

\* w.mu.Lock()
WriteLock(i) ==
    /\ sw.g[i].pc = "Lock"
    /\ LET m == sw.writers[sw.g[i].via].mu
       IN /\ sw.mu[m] = 0
          /\ sw' = [sw EXCEPT !.mu[m] = i, !.g[i].pc = "Call"]
    /\ SyncUnchanged

\* w.w.Write(p) is entered
WriteEnter(i) ==
    /\ sw.g[i].pc = "Call"
    /\ sw' = [sw EXCEPT !.g[i].pc = "Write", !.g[i].got = sw.g[i].p]
    /\ SyncUnchanged

\* w.w.Write(p) returns
WriteReturn(i) ==
    /\ sw.g[i].pc = "Write"
    /\ \E res \in WriteResults(sw.g[i].got) :
          sw' = [sw EXCEPT !.g[i].pc = "Unlock", !.g[i].n = res.n, !.g[i].err = res.err]
    /\ SyncUnchanged

\* the deferred w.mu.Unlock() runs and Write returns
WriteUnlock(i) ==
    /\ sw.g[i].pc = "Unlock"
    /\ LET m == sw.writers[sw.g[i].via].mu
       IN sw' = [sw EXCEPT !.mu[m] = Unlock(@, sw.g[i].err),
                           !.g[i] = Idle,
                           !.calls[i] = @ + 1,
                           !.ret[i] = [n |-> sw.g[i].n, err |-> sw.g[i].err]]
    /\ SyncUnchanged

\* The steps of goroutine i inside Write.
WriteStep(i) == WriteLock(i) \/ WriteEnter(i) \/ WriteReturn(i) \/ WriteUnlock(i)

NextSync ==
    \/ \E i \in 1..MaxWriters, via \in {1, 2} : WriteCall(i, via)
    \/ \E i \in 1..MaxWriters : WriteLock(i)
    \/ \E i \in 1..MaxWriters : WriteEnter(i)
    \/ \E i \in 1..MaxWriters : WriteReturn(i)
    \/ \E i \in 1..MaxWriters : WriteUnlock(i)

SpecSync == InitSync /\ [][NextSync]_vars /\ \A i \in 1..MaxWriters : WF_vars(WriteStep(i))

-----------------------------------------------------------------------------
(* SpecFields: the revision with Fields.  A root built with fields and a    *)
(* path, subloggers and contexts derived in a chain, and calls of Log and   *)
(* LogF on the last logger with the last context or none.                   *)

FieldKeySets == {{}, {"a"}, {"a", "b"}}

\* New(OptMinLevel(LevelInfo), OptClock(1), OptPath(path), OptFields(fields))
InitFields ==
    /\ InitHeap(LevelDebug, LevelInfo, 1)
    /\ rsv = NoResolve
    /\ emit = NoEmit
    /\ conv = NoConv
    /\ ev = NoEv
    /\ sw = NoSw
    /\ grp = NoGrp
    /\ \E keys \in FieldKeySets :
          fl = [NoFl EXCEPT !.loggers = <<[minLevel |-> KLevelInfo, clock |-> 1,
                                           path |-> <<"base">>,
                                           fields |-> MkFields("logger", 1, keys),
                                           parent |-> 0]>>]

FieldsUnchanged ==
    UNCHANGED <<handlers, keySets, derived, nodes, ctxs, ctxMade, loggers, last, procs, writes,
                rsv, emit, conv, ev, sw, grp>>

\* Log and LogF read the heaps and write to none: the state after a call is
\* the state before it, and the behaviour is not followed further.
FieldsObserved == fl.call.op \in {"Log", "LogF"}

\* fl.loggers[l].Sublogger("sub", fields)
FieldsSubloggerAct(l, keys) ==
    /\ ~FieldsObserved
    /\ Len(fl.loggers) < MaxFieldLoggers
    /\ LET n == Len(fl.loggers) + 1
           l2 == FieldsSublogger(l, fl.loggers, <<"sub">>, MkFields("logger", n, keys))
       IN fl' = [fl EXCEPT !.loggers = Append(@, l2),
                           !.call = [NoFieldsCall EXCEPT !.op = "Sublogger", !.lg = l]]
    /\ FieldsUnchanged

\* WithFields(ctx, fields), ctx holding node c
WithFieldsAct(c, keys) ==
    /\ ~FieldsObserved
    /\ Len(fl.nodes) < MaxFieldNodes
    /\ LET n == Len(fl.nodes) + 1
       IN fl' = [fl EXCEPT !.nodes = Append(@, FieldsExtendCtx(c, MkFields("ctx", n, keys))),
                           !.call = [NoFieldsCall EXCEPT !.op = "WithFields", !.c = c]]
    /\ FieldsUnchanged

\* fl.loggers[l].Log(ctx, level, skip, "m", fields) called from "user"
FieldsLogAct(l, c, level, skip, keys) ==
    /\ ~FieldsObserved
    /\ LET given == MkFields("call", 0, keys)
           res == FieldsLog(l, fl.loggers, fl.nodes, c, level, skip, "m", given,
                            <<"user", "outer">>)
       IN fl' = [fl EXCEPT !.call = [op |-> "Log", lg |-> l, c |-> c, level |-> level,
                                     skip |-> skip, given |-> given,
                                     logged |-> res.logged, rec |-> res.rec]]
    /\ FieldsUnchanged

\* fl.loggers[l].LogF(ctx, level, skip, fn) called from "user"
LogFAct(l, c, level, skip, keys) ==
    /\ ~FieldsObserved
    /\ LET given == MkFields("call", 0, keys)
           res == LogF(l, fl.loggers, fl.nodes, c, level, skip,
                       [msg |-> "m", fields |-> given], <<"user", "outer">>)
       IN fl' = [fl EXCEPT !.call = [op |-> "LogF", lg |-> l, c |-> c, level |-> level,
                                     skip |-> skip, given |-> given,
                                     logged |-> res.logged, rec |-> res.rec]]
    /\ FieldsUnchanged

NextFields ==
    \/ \E keys \in FieldKeySets : FieldsSubloggerAct(Len(fl.loggers), keys)
    \/ \E keys \in FieldKeySets : WithFieldsAct(Len(fl.nodes), keys)
    \/ \E c \in {0, Len(fl.nodes)}, level \in {KLevelDebug, KLevelInfo}, skip \in {0, 1},
          keys \in FieldKeySets : FieldsLogAct(Len(fl.loggers), c, level, skip, keys)
    \/ \E c \in {0, Len(fl.nodes)}, level \in {KLevelDebug, KLevelInfo}, skip \in {0, 1},
          keys \in FieldKeySets : LogFAct(Len(fl.loggers), c, level, skip, keys)

SpecFields == InitFields /\ [][NextFields]_vars

-----------------------------------------------------------------------------
(* SpecErr: WarnErr and Err of the LevelLogger, over slog and over Fields,  *)
(* given every kind of error and attributes or fields of the caller's that  *)
(* take the keys of the error's.                                            *)

ErrKeyLists == {<<>>, <<"err", "k">>, <<"k", "err", "j">>}

ErrKeySets == {{}, {"error", "a"}, {"stacktrace", "b"}}

\* NewLevelLogger(fl.loggers[l]).WarnErr(ctx, err, fields), or Err, called
\* from "user"
FieldsErrAct(l, c, method, err, keys) ==
    /\ ~FieldsObserved
    /\ LET ll == FieldsNewLevelLogger(l)
           given == MkFields("call", 0, keys)
           call == FieldsErrCall(ll, method, err, given)
           res == FieldsLog(ll.Logger, fl.loggers, fl.nodes, c, call.level, call.skip,
                            call.msg, call.fields, <<method, "user", "outer">>)
       IN fl' = [fl EXCEPT !.call = [op |-> method, lg |-> l, c |-> c, level |-> call.level,
                                     skip |-> call.skip, given |-> given,
                                     logged |-> res.logged, rec |-> res.rec]]
    /\ FieldsUnchanged

NextErr ==
    \/ \E method \in {"WarnErr", "Err"}, err \in Errors, keys \in ErrKeyLists :
          LevelAct(1, 0, 0, method, err, keys)
    \/ \E method \in {"WarnErr", "Err"}, err \in Errors, keys \in ErrKeySets :
          FieldsErrAct(1, 0, method, err, keys)

SpecErr == InitFields /\ [][NextErr]_vars

-----------------------------------------------------------------------------
(* SpecGroup: goroutines that hold one group value call Resolve on it; the  *)
(* loop of resolveGroup reads an element and writes it back resolved.       *)

InitGroup ==
    /\ InitHeap(LevelDebug, LevelInfo, 1)
    /\ rsv = NoResolve
    /\ emit = NoEmit
    /\ conv = NoConv
    /\ ev = NoEv
    /\ sw = NoSw
    /\ fl = NoFl
    /\ \E k \in [1..MaxMembers -> {"leaf", "lazy"}] :
          grp = [k |-> k, made |-> k,
                 holders |-> [h \in 1..MaxResolvers |-> ValueGroup(1)],
                 procs |-> [p \in 1..MaxResolvers |-> IdleResolver],
                 writes |-> {}]

GroupUnchanged ==
    UNCHANGED <<handlers, keySets, derived, nodes, ctxs, ctxMade, loggers, last, procs, writes,
                rsv, emit, conv, ev, sw, fl>>

\* grp.holders[p].Resolve(): resolveValue returns the group as it is, and
\* the loop begins
ResolveGroupStart(p) ==
    /\ grp.procs[p].pc = "idle"
    /\ grp' = [grp EXCEPT !.procs[p] = [IdleResolver EXCEPT !.pc = "range", !.i = 1]]
    /\ GroupUnchanged

\* for i, a := range k: the element is read and resolved, or the loop ends
\* and the value is returned
ResolveGroupRange(p) ==
    /\ grp.procs[p].pc = "range"
    /\ LET i == grp.procs[p].i
       IN grp' = IF i > Len(grp.k)
                 THEN [grp EXCEPT !.procs[p].pc = "done"]
                 ELSE [grp EXCEPT !.procs[p].pc = "write",
                                  !.procs[p].val = ResolveMember(grp.k[i])]
    /\ GroupUnchanged

\* k[i].Value = a.Value.resolveGroup(depth - 1)
ResolveGroupWrite(p) ==
    /\ grp.procs[p].pc = "write"
    /\ LET i == grp.procs[p].i
           racing == \E q \in 1..Len(grp.procs) :
                        q # p /\ grp.procs[q].pc = "write" /\ grp.procs[q].i = i
       IN \E v \in Stored(grp.procs[p].val, racing) :
              grp' = [grp EXCEPT !.k[i] = v,
                                 !.writes = @ \cup {[by |-> p, i |-> i]},
                                 !.procs[p].pc = "range",
                                 !.procs[p].i = i + 1]
    /\ GroupUnchanged

NextGroup ==
    \/ \E p \in 1..MaxResolvers : ResolveGroupStart(p)
    \/ \E p \in 1..MaxResolvers : ResolveGroupRange(p)
    \/ \E p \in 1..MaxResolvers : ResolveGroupWrite(p)

SpecGroup == InitGroup /\ [][NextGroup]_vars

-----------------------------------------------------------------------------
(* What a record must carry, told from the calls made (derived, ctxMade    *)
(* and the arguments kept in last), not from the handler's own state.      *)

\* The handler nearest the root, among h and its ancestors, that was given
\* an attribute with key k; 0 when none was.
RECURSIVE BaseOwner(_, _)
BaseOwner(h, k) ==
    IF h = 0 THEN 0
    ELSE LET up == BaseOwner(derived[h].parent, k)
         IN IF up # 0 THEN up
            ELSE IF derived[h].asked[k] > 0 THEN h ELSE 0

\* The chain nodes reachable from node n, n included.
RECURSIVE ChainNodes(_)
ChainNodes(n) == IF n = Nil THEN {} ELSE {n} \cup ChainNodes(nodes[n].parent)

NodeAttrs(n) == nodes[n].attrs.inlineAttrs \o nodes[n].attrs.attrs

Max(S) == CHOOSE x \in S : \A y \in S : y <= x

\* The most recently made node, among those of the chain of the context at
\* index c, that holds key k; 0 when none does.
CtxOwner(c, k) ==
    LET holders == {n \in (IF c = 0 THEN {} ELSE ChainNodes(ctxMade[c])) :
                        k \in AttrKeys(NodeAttrs(n))}
    IN IF holders = {} THEN 0 ELSE Max(holders)

\* The values the record of the last Handle or Log call must carry for the
\* ordinary key k: base first, then context, then call site.
ExpectedValues(k) ==
    LET b == BaseOwner(last.h, k)
        n == CtxOwner(last.s, k)
    IN IF b # 0 THEN {MkValue("base", b, derived[b].asked[k])}
       ELSE IF n # 0 THEN {MkValue("ctx", n, IndexOfKey(NodeAttrs(n), k))}
       ELSE IF k \in AttrKeys(last.r.attrs)
            THEN {MkValue("call", 0, IndexOfKey(last.r.attrs, k))}
       ELSE {}

Written(k) == {i \in 1..Len(last.out.attrs) : last.out.attrs[i].Key = k}

\* C1: when the handler ancestry, the context chain and the call site supply
\* the same ordinary key, the record written carries exactly one attribute
\* for it: the base value if a base attribute has the key, else the value of
\* the innermost context node that has it, else the call-site value; a key
\* nobody supplies is absent.
C1_Precedence ==
    last.op = "Handle" =>
        \A k \in UserKeys :
            /\ ValuesOf(last.out.attrs, k) = ExpectedValues(k)
            /\ Cardinality(Written(k)) = Cardinality(ExpectedValues(k))

\* A Handle call through a derived handler with a base attribute for k, a
\* context whose two chain nodes both hold k, and k at the call site.
C1_Witness ==
    /\ last.op = "Handle"
    /\ \E k \in UserKeys :
        /\ BaseOwner(last.h, k) > 1
        /\ last.s # 0
        /\ Cardinality({n \in ChainNodes(ctxMade[last.s]) :
                            k \in AttrKeys(NodeAttrs(n))}) = 2
        /\ k \in AttrKeys(last.r.attrs)
        /\ ValuesOf(last.out.attrs, k) = {MkValue("base", BaseOwner(last.h, k), 1)}

\* A second case of C1: no base attribute, so the innermost context node wins
\* over the outer node and the call site.
C1_WitnessCtx ==
    /\ last.op = "Handle"
    /\ \E k \in UserKeys :
        /\ BaseOwner(last.h, k) = 0
        /\ last.s # 0
        /\ Cardinality({n \in ChainNodes(ctxMade[last.s]) :
                            k \in AttrKeys(NodeAttrs(n))}) = 2
        /\ k \in AttrKeys(last.r.attrs)
        /\ \E v \in ValuesOf(last.out.attrs, k) : v.src = "ctx" /\ v.obj = 2

\* The path of handler h told from the segments of its derivations.
RECURSIVE ExpectedPath(_)
ExpectedPath(h) ==
    IF h = 0 THEN <<>>
    ELSE ExpectedPath(derived[h].parent)
            \o (IF derived[h].seg = <<>> THEN <<>> ELSE <<".">> \o derived[h].seg)

\* The synthesized values the record of the last Handle call must carry
\* under the key k: the time unless zero, the caller unless there is none,
\* the path unless empty.
SynthesizedValues(k) ==
    IF k = "t" /\ last.r.Time # 0 THEN {MkValue("time", last.r.Time, 0)}
    ELSE IF k = "src" /\ last.r.PC # 0 THEN {MkValue("caller", last.r.PC, 0)}
    ELSE IF k = "mod" /\ ExpectedPath(last.h) # <<>> THEN {PathValue(ExpectedPath(last.h))}
    ELSE {}

FirstWriter(k) == IF k \in UserKeys THEN ExpectedValues(k) ELSE SynthesizedValues(k)

\* C2: the attributes of a record written by Handle have pairwise distinct
\* keys, none of them the delegate's own level or message key, and each is
\* the first in precedence order (synthesized fields, base attributes of the
\* ancestry, context chain, call site) to write its key.
C2_UniqueKeys ==
    last.op = "Handle" =>
        /\ NoDuplicateKeys(last.out.attrs)
        /\ AttrKeys(last.out.attrs) \cap slogBuiltinKeys = {}
        /\ \A k \in AttrKeys(last.out.attrs) :
              ValuesOf(last.out.attrs, k) = FirstWriter(k)

\* A record with all three synthesized fields written through a derived
\* handler given a reserved key and k, with a context that holds k and a
\* call that gives k twice: the record has the three fields and one k.
C2_Witness ==
    /\ last.op = "Handle"
    /\ last.r.Time # 0 /\ last.r.PC # 0 /\ handlers[last.h].Mod # <<>>
    /\ derived[last.h].reserved /\ derived[last.h].asked["k"] > 0
    /\ last.s # 0 /\ CtxOwner(last.s, "k") # 0
    /\ Len(last.r.attrs) = 2 /\ AttrKeys(last.r.attrs) = {"k"}
    /\ Len(last.out.attrs) = 4

\* C5: an attribute whose key is empty, a field name or a built-in key is
\* never registered as a base attribute and never added to a record, from
\* whichever source; under a field name the record carries the synthesized
\* value when the field is present and nothing when it is not.
C5_ReservedDropped ==
    /\ \A i \in 1..Len(handlers) :
          /\ keySets[handlers[i].attrKeySet] \cap ReservedKeys = {}
          /\ AttrKeys(handlers[i].slogHandler.attrs) \cap ReservedKeys = {}
    /\ last.op = "Handle" =>
          \A k \in ReservedKeys :
              /\ ValuesOf(last.out.attrs, k) = SynthesizedValues(k)
              /\ Cardinality(Written(k)) = Cardinality(SynthesizedValues(k))

\* A record with no synthesized field, written through a handler given a
\* reserved key, with a reserved key in the context and at the call site:
\* the call's ordinary key is all that is written.
C5_Witness ==
    /\ last.op = "Handle"
    /\ last.r.Time = 0 /\ last.r.PC = 0 /\ handlers[last.h].Mod = <<>>
    /\ derived[last.h].reserved
    /\ last.s # 0 /\ ctxMade[last.s] # Nil
    /\ GaveReserved(NodeAttrs(ctxMade[last.s]))
    /\ Len(last.r.attrs) = 2 /\ last.r.attrs[1].Key = "mod"
    /\ AttrKeys(last.out.attrs) = {"k"}

-----------------------------------------------------------------------------
(* Claims about the level check, under SpecLog *)

\* The level the delegate of the logger of the last call accepts.
Floor == handlers[loggers[last.lg].handler].slogHandler.floor

\* C3: a Log call at a level below the logger's minLevel reads no clock,
\* captures no caller and calls no handler, so nothing is written; a call
\* at minLevel or above that the handler enables reaches Handle.
C3_BelowMinLevel ==
    last.op = "Log" =>
        /\ last.level < loggers[last.lg].minLevel =>
              /\ ~last.clockRead /\ ~last.pcCaptured /\ ~last.handled
              /\ last.out = NoRecord
        /\ (last.level >= loggers[last.lg].minLevel /\ last.level >= Floor) =>
              last.handled

\* A call below minLevel at a level the handler would have accepted.
C3_Witness ==
    /\ last.op = "Log"
    /\ last.level < loggers[last.lg].minLevel
    /\ last.level >= Floor
    /\ ~last.handled

\* C4: Enabled is true exactly when the level is at least minLevel and the
\* handler enables it, and Log writes a record exactly then: a handler floor
\* above minLevel suppresses the record.
C4_EnabledIff ==
    /\ last.op = "Enabled" =>
          (last.enabled <=> (last.level >= loggers[last.lg].minLevel /\ last.level >= Floor))
    /\ last.op = "Log" =>
          /\ last.handled <=> (last.level >= loggers[last.lg].minLevel /\ last.level >= Floor)
          /\ last.handled => (last.out.Level = last.level /\ last.out.Message = "m")
          /\ ~last.handled => last.out = NoRecord

\* A call at a level between minLevel and the handler's floor: no record.
C4_Witness ==
    /\ last.op = "Log"
    /\ last.level >= loggers[last.lg].minLevel
    /\ last.level < Floor
    /\ ~last.handled
    /\ last.out = NoRecord

-----------------------------------------------------------------------------
(* Claims about derivation, under SpecDerive *)

\* The value a handler's first registration of k along the ancestry of h
\* gave, as a set; empty when no handler of the ancestry was given k.
FirstRegistered(h, k) ==
    LET o == BaseOwner(h, k)
    IN IF o = 0 THEN {} ELSE {MkValue("base", o, derived[o].asked[k])}

Occurrences(attrs, k) == Cardinality({i \in 1..Len(attrs) : attrs[i].Key = k})

\* C6: when an ancestor and a descendant were both given a base attribute
\* with key k, the descendant's delegate holds k once, with the value of the
\* first registration along the ancestry, and every record written through
\* the descendant carries that value.
C6_AncestorWins ==
    /\ \A d \in 1..Len(handlers) : \A k \in UserKeys :
          /\ ValuesOf(handlers[d].slogHandler.attrs, k) = FirstRegistered(d, k)
          /\ Occurrences(handlers[d].slogHandler.attrs, k) = Cardinality(FirstRegistered(d, k))
    /\ last.op = "Handle" =>
          \A k \in UserKeys : BaseOwner(last.h, k) # 0 =>
              /\ ValuesOf(last.out.attrs, k) = FirstRegistered(last.h, k)
              /\ Occurrences(last.out.attrs, k) = 1

\* A record written through a handler that was given k, derived from a
\* derived handler that was given k too, with k at the call site as well.
C6_Witness ==
    /\ last.op = "Handle"
    /\ derived[last.h].parent > 1
    /\ derived[last.h].asked["k"] > 0
    /\ derived[derived[last.h].parent].asked["k"] > 0
    /\ "k" \in AttrKeys(last.r.attrs)
    /\ ValuesOf(last.out.attrs, "k") = {MkValue("base", derived[last.h].parent, 1)}

\* C7: a derived handler's path is the concatenation, in derivation order,
\* of the separator and the segment for every non-empty segment; the record
\* has the module field, with that path, exactly when the path is not empty.
C7_PathComposition ==
    /\ \A h \in 1..Len(handlers) : handlers[h].Mod = ExpectedPath(h)
    /\ last.op = "Handle" =>
          /\ ValuesOf(last.out.attrs, "mod") = SynthesizedValues("mod")
          /\ Occurrences(last.out.attrs, "mod") = Cardinality(SynthesizedValues("mod"))

\* A record written through the handler derived with segment "a" and then
\* with the empty segment: its module field is ".a".
C7_Witness ==
    /\ last.op = "Handle"
    /\ derived[last.h].seg = <<>>
    /\ derived[last.h].parent > 1
    /\ derived[derived[last.h].parent].seg = <<"a">>
    /\ ValuesOf(last.out.attrs, "mod") = {PathValue(<<".", "a">>)}

\* The record each call-site key list yields through handler h, nil context.
RecordsThrough(h, hs, ks) ==
    [keys \in DeriveKeyLists |->
        Handle(hs[h], ks, <<>>, NilCtx,
               AddAttrs(NewRecord(1, LevelInfo, "m", 10), MkAttrs("call", 0, keys)))]

\* C8: no step changes a handler or logger that exists: its path, its key
\* set, its delegate and the records written through it stay what they were
\* whatever is derived from it or beside it.
C8_ParentUnchanged ==
    [][/\ \A i \in 1..Len(handlers) :
            /\ handlers'[i] = handlers[i]
            /\ keySets'[handlers[i].attrKeySet] = keySets[handlers[i].attrKeySet]
            /\ RecordsThrough(i, handlers', keySets') = RecordsThrough(i, handlers, keySets)
       /\ \A l \in 1..Len(loggers) : loggers'[l] = loggers[l]]_vars

\* A second handler derived from the same parent as an earlier one, with a
\* key the parent does not have.
C8_Witness ==
    /\ last.op \in {"Subhandler", "Sublogger"}
    /\ Len(handlers) = 3
    /\ derived[3].parent = derived[2].parent
    /\ keySets[handlers[3].attrKeySet] # keySets[handlers[derived[3].parent].attrKeySet]
    /\ keySets[handlers[2].attrKeySet] # keySets[handlers[3].attrKeySet]
    /\ handlers[3].Mod # handlers[derived[3].parent].Mod

-----------------------------------------------------------------------------
(* Claims about the context chain, under SpecCtx *)

\* C10: ExtendCtx(dest, src, attrs) returns dest with a new chain node
\* attached, whose batch is attrs in order and whose parent is the node of
\* src, none when src is nil or has no chain; CtxWithAttrs(ctx, attrs) does
\* the same with ctx as both; every parent link leads to a node made earlier.
C10_ExtendCtx ==
    /\ last.op \in {"ExtendCtx", "CtxWithAttrs"} =>
          LET n == ctxMade[last.ret]
          IN /\ n = Len(nodes)
             /\ ctxs[last.ret] = [isNil |-> FALSE,
                                  values |-> Append(ctxs[last.d].values, n)]
             /\ NodeAttrs(n) = last.r.attrs
             /\ nodes[n].parent = (IF last.s = 0 THEN Nil ELSE ctxMade[last.s])
    /\ \A n \in 1..Len(nodes) : nodes[n].parent < n

\* ExtendCtx with a destination and a source that carry different chains and
\* a batch longer than the node's inline array.
C10_Witness ==
    /\ last.op = "ExtendCtx"
    /\ last.s # 0
    /\ ctxMade[last.s] # Nil /\ ctxMade[last.d] # Nil
    /\ ctxMade[last.s] # ctxMade[last.d]
    /\ Len(last.r.attrs) > eventInlineAttrsSize
    /\ nodes[ctxMade[last.ret]].attrs.attrs # <<>>
    /\ nodes[ctxMade[last.ret]].parent = ctxMade[last.s]

\* The attributes read from a context: its chain walked from its node.
CtxRead(ctx, ns) == ChainWalk(getCtxAttrs(ctx), ns)

\* No step changes a context that exists, a chain node that exists, or what
\* is read from a context that exists.
CtxFrame ==
    /\ \A i \in 1..Len(ctxs) :
          /\ ctxs'[i] = ctxs[i]
          /\ CtxRead(ctxs'[i], nodes') = CtxRead(ctxs[i], nodes)
    /\ \A n \in 1..Len(nodes) : nodes'[n] = nodes[n]

\* C11 as stated: a step changes no existing context or node, and the
\* extension Y it makes of X reads a set of attributes different from X's.
C11_Original ==
    [][/\ CtxFrame
       /\ last'.op \in {"ExtendCtx", "CtxWithAttrs"} =>
             LET X == CtxRead(ctxs'[last'.d], nodes')
                 Y == CtxRead(ctxs'[last'.ret], nodes')
             IN {Y[i] : i \in 1..Len(Y)} # {X[i] : i \in 1..Len(X)}]_vars

\* C11, amended: a step changes no existing context or node; the extension
\* Y it makes reads the attributes given followed by what the source reads,
\* so Y = CtxWithAttrs(X, attrs) reads a longer list than X exactly when
\* attrs is not empty, and the same list when it is.
C11_NonDestructive ==
    [][/\ CtxFrame
       /\ last'.op \in {"ExtendCtx", "CtxWithAttrs"} =>
             LET X == CtxRead(ctxs'[last'.d], nodes')
                 S == CtxRead(IF last'.s = 0 THEN NilCtx ELSE ctxs'[last'.s], nodes')
                 Y == CtxRead(ctxs'[last'.ret], nodes')
             IN /\ Y = last'.r.attrs \o S
                /\ last'.d = last'.s => (Y # X <=> last'.r.attrs # <<>>)]_vars

\* CtxWithAttrs on a context that reads attributes already, with attributes:
\* the extension reads more, the context what it read.
C11_Witness ==
    /\ last.op = "CtxWithAttrs"
    /\ CtxRead(ctxs[last.d], nodes) # <<>>
    /\ last.r.attrs # <<>>
    /\ Len(CtxRead(ctxs[last.ret], nodes)) > Len(CtxRead(ctxs[last.d], nodes))

-----------------------------------------------------------------------------
(* Claims about concurrent use, under SpecConc *)

\* The heap objects reachable from the handlers goroutines can hold.
SharedObjects ==
    {HandlerObj(h) : h \in Published} \cup {MapObj(handlers[h].attrKeySet) : h \in Published}

\* What the call of goroutine i yields when run alone on its target.
AloneSubhandler(i) ==
    Subhandler(handlers[procs[i].target], procs[i].seg, procs[i].attrs, keySets)

AloneHandle(i) == Handle(handlers[procs[i].target], keySets, <<>>, NilCtx, procs[i].r)

\* C9: in every interleaving of Subhandler and Handle calls on shared
\* handlers no step writes to a handler a goroutine can hold or to its key
\* set; a finished call has returned the handler, or written the record, it
\* yields when run alone; and handlers being derived have key sets of their
\* own, distinct from each other's and from their parent's.
C9_NoSharedWrites ==
    /\ writes \cap SharedObjects = {}
    /\ \A i \in 1..Len(procs) :
          /\ (procs[i].op = "Subhandler" /\ procs[i].pc = "done") =>
                LET alone == AloneSubhandler(i)
                    h2 == handlers[procs[i].h2]
                IN /\ [h2 EXCEPT !.attrKeySet = 0] = [alone.h EXCEPT !.attrKeySet = 0]
                   /\ keySets[h2.attrKeySet] = alone.keySets[alone.h.attrKeySet]
          /\ (procs[i].op = "Handle" /\ procs[i].pc = "done") =>
                procs[i].out = AloneHandle(i)
          /\ (procs[i].op = "Subhandler" /\ procs[i].h2 # 0) =>
                /\ handlers[procs[i].h2].attrKeySet # handlers[procs[i].target].attrKeySet
                /\ \A j \in 1..Len(procs) :
                      (j # i /\ procs[j].op = "Subhandler" /\ procs[j].h2 # 0) =>
                          handlers[procs[j].h2].attrKeySet # handlers[procs[i].h2].attrKeySet

\* Two derivations from the handler that has k, both given j and k and both
\* inside their loops: the first has added j to its key set, the second,
\* about to check j, does not find it in its own.
C9_Witness ==
    /\ Len(procs) = 2
    /\ procs[1].op = "Subhandler" /\ procs[2].op = "Subhandler"
    /\ procs[1].target = 2 /\ procs[2].target = 2
    /\ procs[1].pc = "loop" /\ procs[1].i = 2
    /\ procs[2].pc = "loop" /\ procs[2].i = 1
    /\ procs[2].attrs[1].Key = "j"
    /\ keySets[handlers[procs[1].h2].attrKeySet] = {"k", "j"}
    /\ keySets[handlers[procs[2].h2].attrKeySet] = {"k"}
    /\ writes = {MapObj(handlers[procs[1].h2].attrKeySet)}

-----------------------------------------------------------------------------
(* Value.Resolve: termination and the two budgets (SpecResolve).            *)

\* The value given to Resolve is a chain of lazy values in front of a leaf.
PureChain(v) == ~v.cyc /\ v.g = 0

\* The value given to Resolve leads back to itself.
Cyclic(v) == v.cyc

BeforeSentinel == rsv.end = "none" /\ rsv.v # SentinelValue

-----------------------------------------------------------------------------
(* Failures of the delegate (SpecEmit).                                     *)

-----------------------------------------------------------------------------
(* Subloggers (SpecSub).                                                    *)

\* The logger at the root of every derivation.
Root == loggers[1]

\* C16: the logger Sublogger returns has its parent's minLevel and clock
\* and the handler parent.handler.Subhandler(segment, attrs) returns; so
\* every logger derived from the root, however far, has the root's minLevel
\* and clock, answers Enabled as the root does, and stamps its records
\* with the root's clock.
C16_SubloggerShares ==
    [][/\ last'.op = "Sublogger" =>
            LET parent == loggers[last'.lg]
                child == loggers'[last'.ret]
                sub == Subhandler(handlers[parent.handler],
                                  derived'[child.handler].seg, last'.r.attrs, keySets)
            IN /\ child.minLevel = parent.minLevel
               /\ child.clock = parent.clock
               /\ handlers'[child.handler] = sub.h
               /\ keySets' = sub.keySets
               /\ loggers'[last'.lg] = parent
       /\ \A l \in 1..Len(loggers') :
             /\ loggers'[l].minLevel = Root.minLevel
             /\ loggers'[l].clock = Root.clock
       /\ last'.op = "Enabled" =>
             (last'.enabled <=> KLoggerEnabled(Root, handlers, last'.level))
       /\ last'.op = "Log" =>
             /\ last'.handled <=> KLoggerEnabled(Root, handlers, last'.level)
             /\ last'.handled => last'.r.Time = Root.clock]_vars

\* A logger two derivations from a root with a minLevel and a clock that
\* New would not have given it has written a record.
C16_Witness ==
    /\ last.op = "Log" /\ last.handled
    /\ last.lg # 1
    /\ derived[loggers[last.lg].handler].parent # loggers[1].handler
    /\ Root.minLevel = LevelWarn /\ Root.clock = 2
    /\ last.r.Time = 2

-----------------------------------------------------------------------------
(* Call sites and error records (SpecLevel).                                *)

\* The frame k levels above the first of the frames, 0 when the stack ends
\* below it.
FrameAbove(frames, k) == IF k + 1 \in 1..Len(frames) THEN frames[k + 1] ELSE 0

\* C17: Log called with skip k records the frame k levels above its direct
\* caller.  A LevelLogger method hands its Skip plus one to Log, so with
\* the Skip of NewLevelLogger the frame recorded is the caller of the
\* method: not the method, not Log.
C17_CallSite ==
    /\ (last.op = "Log" /\ last.pcCaptured) =>
          last.r.PC = FrameAbove(CallerFrames, last.skip)
    /\ (last.op = "Level" /\ last.pcCaptured) =>
          /\ last.skip = last.llSkip + 1
          /\ last.r.PC = FrameAbove(CallerFrames, last.llSkip)
          /\ last.llSkip = 0 =>
                /\ last.r.PC = CallerFrames[1]
                /\ last.r.PC \notin {PCLevelMethod, PCLog, PCLinepc, PCCallers}

\* Err of a logger built by NewLevelLogger has recorded its caller's frame.
C17_Witness ==
    /\ last.op = "Level" /\ last.method = "Err" /\ last.llSkip = 0
    /\ last.pcCaptured /\ last.handled
    /\ last.r.PC = CallerFrames[1]

\* The attributes of a written record with the key k.
OutValues(k) == ValuesOf(last.out.attrs, k)

-----------------------------------------------------------------------------
(* Level as text (SpecText).                                                *)

\* The five names, in the order of their levels.
LevelNames == <<"DEBUG", "INFO", "WARN", "ERROR", "NONE">>

\* The level a name stands for: the levels count up from LevelDebug.
NamedLevel(s) == (CHOOSE i \in 1..Len(LevelNames) : LevelNames[i] = s) - 1 + KLevelDebug

IsName(s) == \E i \in 1..Len(LevelNames) : LevelNames[i] = s

IsNamedLevel(l) == l \in KLevelDebug..KLevelNone

LastOp == IF conv.ops = <<>> THEN "none" ELSE conv.ops[Len(conv.ops)]

\* The conversion before the last one.
OpBefore == IF Len(conv.ops) < 2 THEN "none" ELSE conv.ops[Len(conv.ops) - 1]

Parsers == {"UnmarshalText", "LevelFromString"}
Renderers == {"String", "MarshalText"}

\* C19: parsing a text as a level returns no error; each of the five names
\* gives its level and every other text (the empty one, a name in another
\* letter case, any other word) gives INFO, whatever the level held before.
C19_ParseNeverFails ==
    LastOp \in Parsers =>
        /\ conv.err = "nil"
        /\ conv.text = conv.fromText
        /\ IsName(conv.text) => conv.level = NamedLevel(conv.text)
        /\ ~IsName(conv.text) => conv.level = KLevelInfo

\* A name in another letter case has been parsed into a variable that held
\* another level, and the variable holds INFO.
C19_Witness ==
    /\ LastOp = "UnmarshalText"
    /\ conv.text = "debug"
    /\ conv.fromLevel = KLevelNone
    /\ conv.level = KLevelInfo /\ conv.err = "nil"

\* C20: rendering one of the five named levels and parsing the text gives
\* the level back; parsing one of the five names and rendering the level
\* gives the name back; every other Level renders as "UNSET", and "UNSET"
\* parses to INFO.
C20_RoundTrip ==
    /\ (LastOp \in Parsers /\ OpBefore \in Renderers) =>
          /\ IsNamedLevel(conv.fromLevel) => conv.level = conv.fromLevel
          /\ ~IsNamedLevel(conv.fromLevel) => (conv.text = "UNSET" /\ conv.level = KLevelInfo)
    /\ (LastOp \in Renderers /\ OpBefore \in Parsers) =>
          /\ IsName(conv.fromText) => conv.text = conv.fromText
          /\ IsNamedLevel(conv.level)
    /\ LastOp \in Renderers =>
          /\ conv.err = "nil" /\ conv.level = conv.fromLevel
          /\ IsNamedLevel(conv.level) => (IsName(conv.text) /\ NamedLevel(conv.text) = conv.level)
          /\ ~IsNamedLevel(conv.level) => conv.text = "UNSET"

\* LevelNone has been rendered and the text parsed back to LevelNone.
C20_Witness ==
    /\ LastOp = "UnmarshalText" /\ OpBefore = "String"
    /\ conv.fromLevel = KLevelNone /\ conv.text = "NONE" /\ conv.level = KLevelNone

-----------------------------------------------------------------------------
(* The revision with Event (SpecMinLevel, SpecPath).                        *)

\* The logger of the last call.
EvLogger == ev.loggers[ev.call.lg]

\* C21 as stated: a logger whose minLevel is NONE hands no event to its
\* handler, whatever the level of the call.
C21_Original ==
    (ev.call.op = "Log" /\ EvLogger.minLevel = KLevelNone) => ~ev.call.handled

\* C21: the levels are ordered DEBUG < INFO < WARN < ERROR < NONE, and a
\* call of Log is handed to the handler exactly when its level is at least
\* minLevel: a logger whose minLevel is NONE emits nothing at DEBUG, INFO,
\* WARN, ERROR or any level below NONE, and emits a call made at level NONE
\* or above.
C21_NoneIsThreshold ==
    /\ KLevelDebug < KLevelInfo /\ KLevelInfo < KLevelWarn
    /\ KLevelWarn < KLevelError /\ KLevelError < KLevelNone
    /\ ev.call.op = "Log" =>
          /\ ev.call.handled <=> ev.call.level >= EvLogger.minLevel
          /\ EvLogger.minLevel = KLevelNone =>
                /\ ev.call.level < KLevelNone => (~ev.call.handled /\ ev.call.e = NoEvent)
                /\ ev.call.level >= KLevelNone =>
                      (ev.call.handled /\ ev.call.e.Level = ev.call.level)

\* A call at ERROR on a logger whose minLevel is NONE has been dropped.
C21_Witness ==
    /\ ev.call.op = "Log" /\ EvLogger.minLevel = KLevelNone
    /\ ev.call.level = KLevelError
    /\ ~ev.call.handled

\* The level a text stands for in the revision with Level = slog.Level:
\* the four names in any letter case.
SlogNamed(s) ==
    CASE s \in {"DEBUG", "debug"} -> LevelDebug
      [] s \in {"INFO", "Info"} -> LevelInfo
      [] s \in {"WARN", "warn"} -> LevelWarn
      [] s = "ERROR" -> LevelError
      [] OTHER -> LevelInfo

\* The last call on the root of the revision with Event filtered as a
\* logger built with OptMinLevel(level) does.
EventFiltersAs(level) ==
    LET l == OptMinLevel(ev.loggers[1], level)
    IN /\ ev.call.op = "Enabled" => (ev.call.enabled <=> EventEnabled(l, ev.call.level))
       /\ ev.call.op = "Log" => (ev.call.handled <=> EventEnabled(l, ev.call.level))

\* The same for the root over slog.
SlogFiltersAs(level) ==
    LET l == [loggers[1] EXCEPT !.minLevel = level]
    IN /\ last.op = "Enabled" => (last.enabled <=> KLoggerEnabled(l, handlers, last.level))
       /\ last.op = "Log" => (last.handled <=> KLoggerEnabled(l, handlers, last.level))

EventByText == ev.rev = "Event" /\ ev.opt = "OptMinLevelStr" /\ ev.call.op \in {"Enabled", "Log"}

SlogByText == ev.rev = "slog" /\ last.op \in {"Enabled", "Log"}

\* C22 as stated: a logger built with OptMinLevelStr(s) filters as one built
\* with OptMinLevel of the level when s is one of the level names (NONE
\* where the revision has that level), and as INFO for any other text.
C22_Original ==
    /\ EventByText =>
          EventFiltersAs(IF IsName(ev.text) THEN NamedLevel(ev.text) ELSE KLevelInfo)
    /\ SlogByText =>
          CASE ev.text = "DEBUG" -> SlogFiltersAs(LevelDebug)
            [] ev.text = "INFO" -> SlogFiltersAs(LevelInfo)
            [] ev.text = "WARN" -> SlogFiltersAs(LevelWarn)
            [] ev.text = "ERROR" -> SlogFiltersAs(LevelError)
            [] OTHER -> SlogFiltersAs(LevelInfo)

\* C22: OptMinLevelStr(s) sets minLevel to the level the revision's text
\* decoding assigns to s, INFO when the decoding fails.  With klog's own
\* Level each of the five names gives its level and any other text INFO;
\* with Level = slog.Level the four names give their levels in any letter
\* case, and NONE and every other text are refused and give INFO.
C22_MinLevelFromText ==
    /\ EventByText =>
          EventFiltersAs(IF IsName(ev.text) THEN NamedLevel(ev.text) ELSE KLevelInfo)
    /\ SlogByText => SlogFiltersAs(SlogNamed(ev.text))

\* A logger built with OptMinLevelStr("NONE") in the revision with klog's own
\* Level has refused a call at ERROR.
C22_Witness ==
    /\ EventByText
    /\ ev.text = "NONE" /\ ev.call.level = KLevelError /\ ev.call.op = "Log"
    /\ ~ev.call.handled

\* The segments of logger l of the revision with Event and of its
\* ancestors, in derivation order, the empty ones left out.
RECURSIVE EvSegments(_)
EvSegments(l) ==
    (IF ev.loggers[l].parent = 0 THEN <<>> ELSE EvSegments(ev.loggers[l].parent))
        \o (IF ev.loggers[l].pathSegment = <<>> THEN <<>> ELSE <<ev.loggers[l].pathSegment>>)

\* The same for handler h.
RECURSIVE ModSegments(_)
ModSegments(h) ==
    (IF derived[h].parent = 0 THEN <<>> ELSE ModSegments(derived[h].parent))
        \o (IF derived[h].seg = <<>> THEN <<>> ELSE <<derived[h].seg>>)

-----------------------------------------------------------------------------
(* SyncWriter (SpecSync).                                                   *)

Writers == 1..MaxWriters

\* The goroutines inside the Write of the writer underneath.
InUnderlying == {i \in Writers : sw.g[i].pc = "Write"}

\* At most one underlying Write is in progress, and the goroutine in it
\* holds the mutex.
OneAtATime ==
    /\ Cardinality(InUnderlying) <= 1
    /\ \A i \in InUnderlying : sw.mu[sw.writers[sw.g[i].via].mu] = i

\* The writer underneath receives the slice the caller passed.
OwnSlice == \A i \in Writers : sw.g[i].pc \in {"Write", "Unlock"} => sw.g[i].got = sw.g[i].p

\* A goroutine that is not between Lock and Unlock holds no mutex, whatever
\* its last call returned.
Released ==
    \A i \in Writers, m \in 1..Len(sw.mu) :
        sw.mu[m] = i => sw.g[i].pc \in {"Call", "Write", "Unlock"}

\* C24: Write is one critical section.  At most one underlying Write is in
\* progress at a time on a SyncWriter and its copies, each call hands its
\* own slice to the writer underneath, the mutex is released when Write
\* returns, with an error or without, and a goroutine waiting at Lock gets
\* the mutex in the end.
C24_CriticalSection ==
    /\ [](OneAtATime /\ OwnSlice /\ Released)
    /\ \A i \in Writers : (sw.g[i].pc = "Lock") ~> (sw.g[i].pc = "Call")

\* A call has returned an error, and after it a goroutine that calls
\* through the copy is inside the underlying Write while another waits.
C24_Witness ==
    /\ \E i \in Writers : sw.ret[i].err = "closed" /\ sw.g[i].pc = "Lock"
    /\ \E i \in Writers : sw.g[i].pc = "Write" /\ sw.g[i].via = 2 /\ sw.g[i].got = sw.g[i].p

-----------------------------------------------------------------------------
(* The revision with Fields (SpecFields).                                   *)

\* The context nodes from c outwards, and the loggers from l upwards.
RECURSIVE FlCtxChain(_)
FlCtxChain(c) == IF c = 0 THEN <<>> ELSE <<c>> \o FlCtxChain(fl.nodes[c].parent)

RECURSIVE FlAncestry(_)
FlAncestry(l) == IF l = 0 THEN <<>> ELSE <<l>> \o FlAncestry(fl.loggers[l].parent)

\* The first map of a sequence of maps that has the key k; 0 when none has.
FirstWith(maps, k) ==
    IF \E i \in 1..Len(maps) : k \in DOMAIN maps[i]
    THEN CHOOSE i \in 1..Len(maps) :
             /\ k \in DOMAIN maps[i]
             /\ \A j \in 1..(i - 1) : k \notin DOMAIN maps[j]
    ELSE 0

\* The maps a call draws from, in the order of precedence: the call's, the
\* context nodes' from the innermost, the loggers' from the nearest.
FlSources ==
    LET cs == FlCtxChain(fl.call.c)
        ks == FlAncestry(fl.call.lg)
    IN <<fl.call.given>> \o [i \in 1..Len(cs) |-> fl.nodes[cs[i]].fields]
           \o [i \in 1..Len(ks) |-> fl.loggers[ks[i]].fields]

FlLogged == fl.call.op \in {"Log", "LogF"} /\ fl.call.logged

\* C25: in the revision with Fields a record's fields are the keys any
\* source gives, each with the value of the call if the call gives the key,
\* else of the innermost context node that does, else of the nearest logger
\* in the ancestry that does; and LogF emits the record Log emits for the
\* same message and fields: level, time, path, message and fields are the
\* same, and so is the caller when skip is at least 1.
C25_FieldPrecedence ==
    /\ FlLogged =>
          /\ DOMAIN fl.call.rec.fields = UNION {DOMAIN FlSources[i] : i \in 1..Len(FlSources)}
          /\ \A k \in DOMAIN fl.call.rec.fields :
                fl.call.rec.fields[k] = FlSources[FirstWith(FlSources, k)][k]
    /\ fl.call.op = "LogF" =>
          LET res == FieldsLog(fl.call.lg, fl.loggers, fl.nodes, fl.call.c, fl.call.level,
                               fl.call.skip, "m", fl.call.given, <<"user", "outer">>)
          IN /\ fl.call.logged = res.logged
             /\ [fl.call.rec EXCEPT !.caller = "nil"] = [res.rec EXCEPT !.caller = "nil"]
             /\ fl.call.skip >= 1 => fl.call.rec.caller = res.rec.caller

\* LogF on a sublogger that overrides "a" of its parent, with a context of
\* two nodes of which the outer one gives "a" and "b" and the inner one "a",
\* at a call that gives no key: "a" comes from the inner node and "b" from
\* the outer one.
C25_Witness ==
    /\ fl.call.op = "LogF" /\ fl.call.logged
    /\ fl.call.given = <<>>
    /\ Len(FlCtxChain(fl.call.c)) = 2
    /\ fl.loggers[fl.call.lg].parent # 0
    /\ "a" \in DOMAIN fl.loggers[fl.call.lg].fields
    /\ "a" \in DOMAIN fl.loggers[fl.loggers[fl.call.lg].parent].fields
    /\ fl.call.rec.fields = [a |-> [src |-> "ctx", obj |-> 2], b |-> [src |-> "ctx", obj |-> 1]]

-----------------------------------------------------------------------------
(* One record for each call that passes (SpecLog).                          *)

\* The places an attribute of a record may come from when the context is
\* nil: the fields Handle synthesizes, the handlers' base attributes, the
\* call.
NilCtxSources == {"time", "caller", "path", "base", "call"}

\* C26: a call of Log that passes the level check calls Handle once and the
\* delegate is handed one record, with the level and the message of the call
\* and, under the time field, the time the logger's clock gave (the zero
\* time is not written); a call that does not pass hands the delegate
\* nothing.  With a nil context every attribute of the record is a
\* synthesized field, a base attribute or an attribute of the call.
C26_OneRecord ==
    last.op = "Log" =>
        IF KLoggerEnabled(loggers[last.lg], handlers, last.level)
        THEN /\ last.handled
             /\ Len(last.forwarded) = 1
             /\ last.forwarded[1].Level = last.level
             /\ last.forwarded[1].Message = "m"
             /\ last.r.Time = loggers[last.lg].clock
             /\ ValuesOf(last.forwarded[1].attrs, handlers[last.h].FieldTime)
                    = IF loggers[last.lg].clock = 0 THEN {}
                      ELSE {MkValue("time", loggers[last.lg].clock, 0)}
             /\ last.s = 0 =>
                    \A i \in 1..Len(last.forwarded[1].attrs) :
                        last.forwarded[1].attrs[i].Value.src \in NilCtxSources
        ELSE ~last.handled /\ last.forwarded = <<>>

\* A call with a nil context on a sublogger given a base attribute, with an
\* attribute of its own under another key: one record, with both.
C26_Witness ==
    /\ last.op = "Log" /\ last.s = 0
    /\ Len(last.forwarded) = 1
    /\ \E i, j \in 1..Len(last.forwarded[1].attrs) :
          /\ last.forwarded[1].attrs[i].Value.src = "base"
          /\ last.forwarded[1].attrs[j].Value.src = "time"
    /\ last.forwarded[1].Message = "m"

-----------------------------------------------------------------------------
(* The registered keys and the delegate's attributes (SpecKeySets).         *)

\* The handlers from h up to the root.
RECURSIVE HandlerAncestry(_)
HandlerAncestry(h) == IF h = 0 THEN {} ELSE {h} \cup HandlerAncestry(derived[h].parent)

\* C27: the key set of every handler derived from NewSlogHandler's by
\* Subhandler is the set of the keys of the base attributes its delegate was
\* given through WithAttrs along the ancestry; the delegate holds no key
\* twice and each attribute it holds was given to a handler of the
\* ancestry; the set has no empty key, no field name and no built-in key.
C27_KeySetIsForwarded ==
    \A h \in 1..Len(handlers) :
        LET forwarded == handlers[h].slogHandler.attrs
            registered == keySets[handlers[h].attrKeySet]
        IN /\ registered = AttrKeys(forwarded)
           /\ NoDuplicateKeys(forwarded)
           /\ \A i \in 1..Len(forwarded) :
                 /\ forwarded[i].Value.src = "base"
                 /\ forwarded[i].Value.obj \in HandlerAncestry(h)
           /\ "" \notin registered
           /\ registered \cap {handlers[h].FieldTime, handlers[h].FieldSrc,
                               handlers[h].FieldMod} = {}
           /\ registered \cap slogBuiltinKeys = {}

\* A handler given every kind of key, derived from a handler that was given
\* k and j: it registered nothing of its own and holds its parent's two keys.
C27_Witness ==
    \E h \in 1..Len(handlers) :
        /\ derived[h].parent > 1
        /\ derived[h].reserved /\ derived[h].asked["k"] > 0
        /\ derived[derived[h].parent].asked["k"] > 0
        /\ derived[derived[h].parent].asked["j"] > 0
        /\ keySets[handlers[h].attrKeySet] = {"k", "j"}
        /\ Len(handlers[h].slogHandler.attrs) = 2

-----------------------------------------------------------------------------
(* Resolve on a shared group value (SpecGroup).                             *)

\* The members a holder of the group value v reads.
HeldMembers(v) == IF v.slice = 1 THEN grp.k ELSE <<>>

\* C28 as stated: Resolve does not modify the group value it is called on.
\* The attribute sequence every holder of the group reads is the one the
\* group was made with, and Resolve writes nothing to the shared array.
C28_Original ==
    /\ \A h \in 1..Len(grp.holders) : HeldMembers(grp.holders[h]) = grp.made
    /\ grp.writes = {}

\* One goroutine has returned from Resolve on a group with a lazy member
\* while the other has not called it: the other holder's members changed.
C28_Modified ==
    /\ grp.procs[1].pc = "done"
    /\ grp.procs[2].pc = "idle"
    /\ "lazy" \in {grp.made[i] : i \in 1..Len(grp.made)}
    /\ grp.k # grp.made

-----------------------------------------------------------------------------
(* ExtendCtx with a destination other than the source (SpecCtx).            *)

\* The chain nodes the destination of the last call had that the source's
\* chain does not have.
DestOnlyNodes ==
    ChainNodes(ctxMade[last.d]) \ (IF last.s = 0 THEN {} ELSE ChainNodes(ctxMade[last.s]))

\* The nodes the attributes of a sequence were given to.
NodesOf(attrs) == {attrs[i].Value.obj : i \in {j \in 1..Len(attrs) : attrs[j].Value.src = "ctx"}}

\* The record written through the root handler with the context at index c
\* and no attribute at the call.
RecordWith(c) ==
    Handle(handlers[1], keySets, nodes, ctxs[c], NewRecord(1, LevelInfo, "m", 10))

\* C29: the context ExtendCtx returns for a destination other than the
\* source reads the new attributes and then the source's chain; no batch of
\* the destination outside the source's chain is read from it or written to
\* a record logged with it.
C29_DestinationShadowed ==
    (last.op = "ExtendCtx" /\ last.d # last.s) =>
        /\ CtxRead(ctxs[last.ret], nodes) = last.r.attrs \o CtxRead(CtxAt(last.s), nodes)
        /\ NodesOf(CtxRead(ctxs[last.ret], nodes)) \cap DestOnlyNodes = {}
        /\ NodesOf(RecordWith(last.ret).attrs) \cap DestOnlyNodes = {}
        /\ NodesOf(RecordWith(last.ret).attrs) \subseteq NodesOf(CtxRead(ctxs[last.ret], nodes))

\* ExtendCtx with a destination that holds a batch of its own and a source
\* with another chain: the record logged with the result has attributes of
\* the new node and nothing of the destination's.
C29_Witness ==
    /\ last.op = "ExtendCtx" /\ last.d # last.s /\ last.s # 0
    /\ ctxMade[last.d] # Nil /\ ctxMade[last.s] # Nil
    /\ ctxMade[last.d] \in DestOnlyNodes
    /\ NodeAttrs(ctxMade[last.d]) # <<>>
    /\ NodeAttrs(ctxMade[last.s]) # <<>>
    /\ ctxMade[last.ret] \in NodesOf(RecordWith(last.ret).attrs)

-----------------------------------------------------------------------------
(* The error's attributes and the caller's (SpecErr).                       *)

\* The attributes of a sequence that the caller of the method gave.
CallPart(attrs) == SelectSeq(attrs, LAMBDA a : a.Value.src = "call")

OtherThanErr(attrs) == SelectSeq(attrs, LAMBDA a : a.Key # "err")

ErrMethods == {"WarnErr", "Err"}

\* C30: WarnErr and Err hand Log the error's attribute first and then the
\* caller's in their order, and the record has the error's value under
\* "err" once, whatever the caller gave under that key, and the caller's
\* other attributes in their order; with Fields the record has the error's
\* values under "error" and "stacktrace", and the caller's value under every
\* other key the caller gave.
C30_ErrorFirst ==
    /\ (last.op = "Level" /\ last.method \in ErrMethods) =>
          LET e == getErrAttr(last.err).attr
          IN /\ last.r.attrs[1] = e
             /\ \A i \in 2..Len(last.r.attrs) :
                   last.r.attrs[i].Value = MkValue("call", 0, i - 1)
             /\ last.handled
             /\ ValuesOf(last.out.attrs, "err") = {e.Value}
             /\ Occurrences(last.out.attrs, "err") = 1
             /\ CallPart(last.out.attrs) = OtherThanErr(Tail(last.r.attrs))
    /\ (fl.call.op \in ErrMethods) =>
          /\ fl.call.logged
          /\ fl.call.rec.fields["error"] = [src |-> "err.Error", obj |-> 0]
          /\ fl.call.rec.fields["stacktrace"].src \in {"StackString", "NONE"}
          /\ \A k \in DOMAIN fl.call.given \ {"error", "stacktrace"} :
                fl.call.rec.fields[k] = fl.call.given[k]

\* Err given attributes with the keys k, err and j in that order: the record
\* has the error's err and then k and j.
C30_Witness ==
    /\ last.op = "Level" /\ last.method = "Err"
    /\ Len(last.r.attrs) = 4
    /\ last.r.attrs[3].Key = "err"
    /\ last.handled
    /\ Len(CallPart(last.out.attrs)) = 2
    /\ Occurrences(last.out.attrs, "err") = 1

====
